---- MODULE Spec2Model ----
(***************************************************************************)
(* Model of the video downloader bot: the task store, the maintenance      *)
(* scheduler and the download orchestrator.                                *)
(*                                                                         *)
(* DownloadTaskManager (src/task_manager.py) is an in-memory dict from     *)
(* task id to DownloadTask.  Its coroutines contain no await expression,   *)
(* and the synchronous methods are plain functions, so on the asyncio      *)
(* event loop every call runs from entry to return without another         *)
(* coroutine in between.                                                   *)
(*                                                                         *)
(*   Spec      one action per call of the store's API, with and without    *)
(*             the optional arguments, all at one clock reading.           *)
(*   SpecClock one action per call of the store's API while the clock      *)
(*             advances between calls.                                     *)
(*   SpecIdentity  the same calls for the tasks of different requesters.   *)
(*   SpecLoop  update_task_status executed statement by statement by       *)
(*             coroutines of one event loop; a coroutine gives up the      *)
(*             loop only at the program points in AwaitPoints.             *)
(*   SpecSched the BackgroundTaskScheduler (src/background_tasks.py):      *)
(*             start(), stop() and the two cleanup loops as asyncio tasks; *)
(*             FairSched is the life cycle driven by one caller on an      *)
(*             event loop that runs every ready task.                      *)
(*   SpecEvict the handlers' calls on one task while the clock advances    *)
(*             and the scheduler's loops make their passes.                *)
(*   SpecDownload  the VideoDownloader (src/video_downloader.py): one      *)
(*             download_video call, its worker thread, the progress hook   *)
(*             and cancel_download; FairDownload adds that the worker and  *)
(*             the event loop keep running.                                *)
(*   SpecOverlap   two coroutines inside download_video for the same URL.  *)
(*   SpecBot   the BotHandler (src/bot_handler.py): handle_message,        *)
(*             handle_inline_query and the inline download, from the       *)
(*             request to the file sent, over the store and the            *)
(*             downloader; FairBot adds that the event loop and the        *)
(*             worker keep running.                                        *)
(*   SpecInline    inline queries only, up to MaxTasks tasks.              *)
(*                                                                         *)
(* Optional[T] values are sequences of length at most one: <<>> is None    *)
(* and <<v>> is the value v.  Floats are integers in tenths (One is 1.0).  *)
(* datetime values are integer clock readings in minutes, the unit of      *)
(* max_age_minutes.                                                        *)
(***************************************************************************)
EXTENDS Integers, Sequences, FiniteSets, TLC

VARIABLES
    tasks,      \* DownloadTaskManager.tasks : task_id -> DownloadTask
    nextId,     \* number of uuid4 values handed out so far
    now,        \* the reading datetime.now() returns
    ret,        \* the most recent call of the store or the scheduler and what it returned
    frames,     \* SpecLoop: per coroutine, the update_task_status call it is in
    running,    \* SpecLoop: the coroutine holding the event loop, 0 if none
    obs,        \* SpecLoop: what the most recent reader saw
    _running,             \* BackgroundTaskScheduler._running
    _file_cleanup_task,   \* handle of the file cleanup loop's asyncio task
    _task_cleanup_task,   \* handle of the task cleanup loop's asyncio task
    aio,        \* the asyncio tasks start() has created, by handle
    stops,      \* per caller, the stop() call it is suspended in
    files,      \* the files of the temporary directory: name -> size, mtime
    active_downloads,     \* VideoDownloader.active_downloads
    downloads,  \* per caller, the download_video call it is in
    reported,   \* the value most recently passed to progress_callback
    dret,       \* the most recent call of the downloader's API
    handlers    \* per bot handler, the request it is working on

schedVars == <<_running, _file_cleanup_task, _task_cleanup_task, aio, stops>>

dlVars == <<active_downloads, downloads, reported, dret>>

vars ==
    <<tasks, nextId, now, ret, frames, running, obs, schedVars, files, dlVars,
      handlers>>

----------------------------------------------------------------------------
(* Bounds *)

MaxTasks == 2
MaxTime == 2
MaxAge == 1
MaxStarts == 2
MaxFails == 2
MaxRequests == 1

----------------------------------------------------------------------------
(* Data *)

PENDING == "pending"
DOWNLOADING == "downloading"
COMPLETED == "completed"
FAILED == "failed"

TaskStatus == {PENDING, DOWNLOADING, COMPLETED, FAILED}

Platform == {"youtube_shorts", "tiktok", "unsupported"}

Platforms == {"tiktok"}

None == <<>>

Some(v) == <<v>>

\* Python truth value of an Optional[str] argument: None and "" are falsy
Truthy(o) == o # None /\ o[1] # ""

One == 10

\* builtin min(a, b) and max(a, b) on two arguments
PyMin(a, b) == IF b < a THEN b ELSE a

PyMax(a, b) == IF b > a THEN b ELSE a

TaskIds == 1..MaxTasks

Urls == {"u1"}

UserIds == {7}

\* the optional arguments of update_task_status: <<file_path, error_message, progress>>
UpdateArgs ==
    {<<None, None, None>>,
     <<Some("f1"), Some(""), Some(One + 5)>>,
     <<Some(""), Some("e1"), Some(-5)>>}

Ages == (-1)..MaxAge

DownloadTask(id, url, user, platform, clock) ==
    [task_id |-> id, url |-> url, user_id |-> user, platform |-> platform,
     status |-> PENDING, created_at |-> clock, completed_at |-> None,
     file_path |-> None, error_message |-> None, progress |-> 0]

VALID_TRANSITIONS ==
    [s \in TaskStatus |->
        CASE s = PENDING -> {DOWNLOADING, FAILED}
          [] s = DOWNLOADING -> {COMPLETED, FAILED}
          [] s = COMPLETED -> {}
          [] s = FAILED -> {}]

\* variant: every requested status is accepted
is_valid_transition_any(current_status, new_status) == TRUE

is_valid_transition(current_status, new_status) ==
    new_status \in VALID_TRANSITIONS[current_status]

\* variant: a missing id reads as a fresh default task
LookupDefault(store, id) ==
    IF id \in DOMAIN store
    THEN Some(store[id])
    ELSE Some(DownloadTask(id, "", 0, "unsupported", 0))

\* dict.get(task_id)
Lookup(store, id) == IF id \in DOMAIN store THEN Some(store[id]) ELSE None

----------------------------------------------------------------------------
(* The record of the most recent call *)

NoCall ==
    [op |-> "none", id |-> 0, arg |-> 0, ok |-> FALSE, n |-> 0,
     val |-> None, task |-> None, ticked |-> FALSE]

Returned(op, id, arg, ok, n, val, task) ==
    [op |-> op, id |-> id, arg |-> arg, ok |-> ok, n |-> n,
     val |-> val, task |-> task, ticked |-> FALSE]

----------------------------------------------------------------------------
(* update_task_status, statement by statement (task_manager.py 152-167) *)

\* task.status = new_status
SetStatus(task, new_status) == [task EXCEPT !.status = new_status]

\* if file_path: task.file_path = file_path
SetFilePath(task, file_path) ==
    IF Truthy(file_path) THEN [task EXCEPT !.file_path = file_path] ELSE task

\* if error_message: task.error_message = error_message
SetErrorMessage(task, error_message) ==
    IF Truthy(error_message)
    THEN [task EXCEPT !.error_message = error_message]
    ELSE task

\* variant: the lower bound is forgotten
ClampNoFloor(progress) == PyMin(One, progress)

Clamp(progress) == PyMax(0, PyMin(One, progress))

\* if progress is not None: task.progress = max(0.0, min(1.0, progress))
SetProgress(task, progress) ==
    IF progress # None
    THEN [task EXCEPT !.progress = Clamp(progress[1])]
    ELSE task

\* variant: a terminal update stamps the creation time as well
SetCompletedAtRestamps(task, new_status, clock) ==
    IF new_status \in {COMPLETED, FAILED}
    THEN [task EXCEPT !.completed_at = Some(clock), !.created_at = clock]
    ELSE task

\* variant: the completion time is stamped on every accepted update
SetCompletedAtAlways(task, new_status, clock) ==
    [task EXCEPT !.completed_at = Some(clock)]

\* if new_status in [COMPLETED, FAILED]: task.completed_at = datetime.now()
SetCompletedAt(task, new_status, clock) ==
    IF new_status \in {COMPLETED, FAILED}
    THEN [task EXCEPT !.completed_at = Some(clock)]
    ELSE task

\* the task after lines 152-167 have all run
Updated(task, new_status, file_path, error_message, progress, clock) ==
    SetCompletedAt(
        SetProgress(
            SetErrorMessage(
                SetFilePath(SetStatus(task, new_status), file_path),
                error_message),
            progress),
        new_status, clock)

\* the value update_task_status returns
UpdateReturn(store, id, new_status) ==
    LET task == Lookup(store, id) IN
    IF task = None
    THEN FALSE
    ELSE is_valid_transition(task[1].status, new_status)

\* variant: the optional fields are written before the transition is validated
UpdateStoreWriteFirst(store, id, new_status, file_path, error_message, progress, clock) ==
    IF id \notin DOMAIN store THEN store
    ELSE IF UpdateReturn(store, id, new_status)
    THEN [store EXCEPT
            ![id] = Updated(@, new_status, file_path, error_message,
                            progress, clock)]
    ELSE [store EXCEPT
            ![id] = SetProgress(
                        SetErrorMessage(SetFilePath(@, file_path),
                                        error_message),
                        progress)]

\* variant: an accepted update writes its progress to every task
UpdateStoreSharedProgress(store, id, new_status, file_path, error_message, progress, clock) ==
    IF UpdateReturn(store, id, new_status)
    THEN [k \in DOMAIN store |->
            IF k = id
            THEN Updated(store[k], new_status, file_path, error_message,
                         progress, clock)
            ELSE SetProgress(store[k], progress)]
    ELSE store

\* the store update_task_status leaves behind
UpdateStore(store, id, new_status, file_path, error_message, progress, clock) ==
    IF UpdateReturn(store, id, new_status)
    THEN [store EXCEPT
            ![id] = Updated(@, new_status, file_path, error_message,
                            progress, clock)]
    ELSE store

----------------------------------------------------------------------------
(* cleanup_completed_tasks (task_manager.py 192-227) *)

\* timedelta(minutes=max_age_minutes), in clock units
timedelta(minutes) == minutes

\* variant: a task exactly max_age old is collected as well
TasksToRemoveInclusive(store, max_age_minutes, current_time) ==
    {id \in DOMAIN store :
        /\ store[id].status \in {COMPLETED, FAILED}
        /\ store[id].completed_at # None
        /\ current_time - store[id].completed_at[1] >= timedelta(max_age_minutes)}

\* variant: active tasks are collected by age since creation
TasksToRemoveAnyStatus(store, max_age_minutes, current_time) ==
    {id \in DOMAIN store :
        IF store[id].completed_at # None
        THEN current_time - store[id].completed_at[1] > timedelta(max_age_minutes)
        ELSE current_time - store[id].created_at > timedelta(max_age_minutes)}

\* the ids collected in tasks_to_remove
TasksToRemove(store, max_age_minutes, current_time) ==
    {id \in DOMAIN store :
        /\ store[id].status \in {COMPLETED, FAILED}
        /\ store[id].completed_at # None
        /\ current_time - store[id].completed_at[1] > timedelta(max_age_minutes)}

\* variant: the removal loop stops after the first deletion
WithoutFirst(store, ids) ==
    [id \in DOMAIN store \ {i \in ids : \A j \in ids : i <= j} |-> store[id]]

\* del self.tasks[task_id] for every collected id
Without(store, ids) == [id \in DOMAIN store \ ids |-> store[id]]

\* removed_count: one for every del executed
RemovedCount(store, ids) ==
    Cardinality(DOMAIN store) - Cardinality(DOMAIN Without(store, ids))

----------------------------------------------------------------------------
(* Spec: one action per call *)

IdleFrame ==
    [pc |-> "idle", id |-> 0, new_status |-> PENDING, file_path |-> None,
     error_message |-> None, progress |-> None, result |-> None,
     issued |-> FALSE]

Coroutines == {1, 2}

\* the coroutines that call stop()
StopCallers == {1, 2}

\* a caller that is not inside stop()
IdleStop == [pc |-> "idle", awaiting |-> 0]

\* the coroutines that call download_video
DownloadCallers == {1}

\* the coroutines whose calls of download_video overlap
Overlapping == {1, 2}

\* a caller that is not inside download_video
IdleDownload ==
    [pc |-> "idle", url |-> "", output_path |-> <<>>, callback |-> FALSE,
     started |-> FALSE, forgotten |-> FALSE, result |-> None]

\* no call of the downloader's API has been made
NoDownloadCall ==
    [op |-> "none", caller |-> 0, id |-> "", result |-> None, raised |-> None,
     started |-> FALSE, forgotten |-> FALSE]

\* a handler of the bot that works on no request
IdleHandler ==
    [pc |-> "idle", kind |-> "none", task_id |-> 0, url |-> "", user_id |-> 0,
     video_id |-> None, platform |-> "unsupported"]

\* what an earlier download has left in the temporary directory
LeftoverFiles == [p \in {<<"b", "mp4">>} |-> [size |-> 1, mtime |-> 0]]

Init ==
    /\ tasks = <<>>
    /\ nextId = 0
    /\ now = 0
    /\ ret = NoCall
    /\ frames = [c \in Coroutines |-> IdleFrame]
    /\ running = 0
    /\ obs = [op |-> "none", torn |-> FALSE]
    /\ _running = FALSE
    /\ _file_cleanup_task = None
    /\ _task_cleanup_task = None
    /\ aio = <<>>
    /\ stops = [k \in StopCallers |-> IdleStop]
    /\ files = LeftoverFiles
    /\ active_downloads = <<>>
    /\ downloads = [c \in Overlapping |-> IdleDownload]
    /\ reported = None
    /\ dret = NoDownloadCall
    /\ handlers = [h \in DownloadCallers |-> IdleHandler]

\* variant: the id generator hands the latest id out again
uuid4_repeated == IF nextId = 0 THEN 1 ELSE nextId

\* uuid.uuid4(): a value no earlier call has returned
uuid4 == nextId + 1

create_task(url, user_id, platform) ==
    /\ nextId < MaxTasks
    /\ LET task_id == uuid4 IN
        /\ tasks' = [id \in DOMAIN tasks \cup {task_id} |->
                        IF id = task_id
                        THEN DownloadTask(task_id, url, user_id, platform, now)
                        ELSE tasks[id]]
        /\ nextId' = task_id
        /\ ret' = Returned("create_task", task_id, 0, TRUE, 0, None, None)
    /\ UNCHANGED <<handlers, now, frames, running, obs,
                 schedVars, files, dlVars>>

get_task_status(task_id) ==
    /\ LET task == Lookup(tasks, task_id) IN
        ret' = Returned("get_task_status", task_id, 0, task # None, 0,
                        IF task # None THEN Some(task[1].status) ELSE None,
                        None)
    /\ UNCHANGED <<handlers, tasks, nextId, now, frames, running, obs,
                 schedVars, files, dlVars>>

get_task_result(task_id) ==
    /\ ret' = Returned("get_task_result", task_id, 0,
                       Lookup(tasks, task_id) # None, 0, None,
                       Lookup(tasks, task_id))
    /\ UNCHANGED <<handlers, tasks, nextId, now, frames, running, obs,
                 schedVars, files, dlVars>>

update_task_status(task_id, new_status, file_path, error_message, progress) ==
    /\ tasks' = UpdateStore(tasks, task_id, new_status, file_path,
                            error_message, progress, now)
    /\ ret' = Returned("update_task_status", task_id, 0,
                       UpdateReturn(tasks, task_id, new_status), 0,
                       Some(new_status), None)
    /\ UNCHANGED <<handlers, nextId, now, frames, running, obs,
                 schedVars, files, dlVars>>

cleanup_completed_tasks(max_age_minutes) ==
    /\ LET tasks_to_remove == TasksToRemove(tasks, max_age_minutes, now) IN
        /\ tasks' = Without(tasks, tasks_to_remove)
        /\ ret' = Returned("cleanup_completed_tasks", 0, max_age_minutes,
                           TRUE, RemovedCount(tasks, tasks_to_remove), None,
                           None)
    /\ UNCHANGED <<handlers, nextId, now, frames, running, obs,
                 schedVars, files, dlVars>>

\* the clock moves on between two calls
Tick ==
    /\ now < MaxTime
    /\ now' = now + 1
    /\ ret' = [ret EXCEPT !.ticked = TRUE]
    /\ UNCHANGED <<handlers, tasks, nextId, frames, running, obs,
                 schedVars, files, dlVars>>

Create == \E url \in Urls, user_id \in UserIds, platform \in Platforms :
    create_task(url, user_id, platform)

GetStatus == \E task_id \in TaskIds : get_task_status(task_id)

GetResult == \E task_id \in TaskIds : get_task_result(task_id)

Update ==
    \E task_id \in TaskIds, new_status \in TaskStatus, a \in UpdateArgs :
        update_task_status(task_id, new_status, a[1], a[2], a[3])

Cleanup == \E max_age_minutes \in Ages : cleanup_completed_tasks(max_age_minutes)

\* calls with and without the optional arguments, all made at one clock
\* reading
Next ==
    \/ Create
    \/ GetStatus
    \/ GetResult
    \/ Update
    \/ Cleanup

Spec == Init /\ [][Next]_vars

----------------------------------------------------------------------------
(* SpecClock: one action per call while the clock advances *)

\* update_task_status(task_id, new_status) with the optional arguments left out
PlainUpdate ==
    \E task_id \in TaskIds, new_status \in TaskStatus :
        update_task_status(task_id, new_status, None, None, None)

NextClock ==
    \/ Create
    \/ PlainUpdate
    \/ Cleanup
    \/ Tick

SpecClock == Init /\ [][NextClock]_vars

----------------------------------------------------------------------------
(* SpecIdentity: the store's calls for tasks of different requesters *)

\* <<url, user_id, platform>> of the n-th request that reaches create_task:
\* consecutive requests differ in all three
Request(n) ==
    IF n % 2 = 1
    THEN <<"u1", 7, "tiktok">>
    ELSE <<"u5", 8, "youtube_shorts">>

CreateRequest ==
    LET r == Request(uuid4) IN create_task(r[1], r[2], r[3])

NextIdentity ==
    \/ CreateRequest
    \/ PlainUpdate
    \/ Cleanup
    \/ Tick

SpecIdentity == Init /\ [][NextIdentity]_vars

TypeOK ==
    /\ DOMAIN tasks \subseteq TaskIds
    /\ nextId \in 0..MaxTasks
    /\ now \in 0..MaxTime

----------------------------------------------------------------------------
(* SpecLoop: update_task_status statement by statement on one event loop *)

\* the id of the one task the coroutines of SpecLoop work on: the first uuid4
LoopIds == {1}

LoopAges == {0}

LoopStatuses == {DOWNLOADING, COMPLETED, FAILED}

LoopArgs == {<<None, None, None>>, <<Some("f1"), Some("e1"), Some(4)>>}

\* variant: the coroutine awaits between the validation and the status write
AwaitAfterValidate == {"status"}

\* variant: the coroutine awaits before it stamps the completion time
AwaitBeforeCompletedAt == {"completed_at"}

\* program points at which the coroutine awaits and another coroutine may run:
\* the body of update_task_status has no await expression
AwaitPoints == {}

InFlight(f) == f.pc \notin {"idle", "done"}

\* the statement at f.pc applied to the task object the coroutine holds
Statement(f, task, clock) ==
    CASE f.pc = "status" -> SetStatus(task, f.new_status)
      [] f.pc = "file_path" -> SetFilePath(task, f.file_path)
      [] f.pc = "error_message" -> SetErrorMessage(task, f.error_message)
      [] f.pc = "progress" -> SetProgress(task, f.progress)
      [] f.pc = "completed_at" -> SetCompletedAt(task, f.new_status, clock)
      [] OTHER -> task

NextPoint(pc) ==
    CASE pc = "lookup" -> "validate"
      [] pc = "validate" -> "status"
      [] pc = "status" -> "file_path"
      [] pc = "file_path" -> "error_message"
      [] pc = "error_message" -> "progress"
      [] pc = "progress" -> "completed_at"
      [] pc = "completed_at" -> "return"
      [] OTHER -> "done"

\* the frame of a call that has returned: the arguments are dropped
Done(f, result) ==
    [IdleFrame EXCEPT !.pc = "done", !.id = f.id, !.new_status = f.new_status,
                      !.result = Some(result), !.issued = f.issued]

\* whether the statement at f.pc returns False
Rejects(f, store) ==
    \/ f.pc = "lookup" /\ Lookup(store, f.id) = None
    \/ /\ f.pc = "validate"
       /\ \/ f.id \notin DOMAIN store
          \/ ~is_valid_transition(store[f.id].status, f.new_status)

\* who holds the event loop after coroutine c has moved to program point pc
Holder(c, pc) == IF pc = "done" \/ pc \in AwaitPoints THEN 0 ELSE c

\* a coroutine is scheduled to run update_task_status(task_id, ...)
Call(c, task_id, new_status, file_path, error_message, progress) ==
    /\ running = 0
    /\ ~InFlight(frames[c])
    /\ frames' = [frames EXCEPT ![c] =
            [pc |-> "lookup", id |-> task_id, new_status |-> new_status,
             file_path |-> file_path, error_message |-> error_message,
             progress |-> progress, result |-> None,
             issued |-> /\ task_id \in DOMAIN tasks
                        /\ tasks[task_id].status = PENDING]]
    /\ UNCHANGED <<handlers, tasks, nextId, now, ret, running, obs,
                 schedVars, files, dlVars>>

\* coroutine c executes the statement at its program point
Step(c) ==
    LET f == frames[c] IN
    /\ InFlight(f)
    /\ running \in {0, c}
    /\ IF Rejects(f, tasks)
       THEN /\ frames' = [frames EXCEPT ![c] = Done(f, FALSE)]
            /\ running' = 0
            /\ UNCHANGED tasks
       ELSE IF f.pc = "return"
       THEN /\ frames' = [frames EXCEPT ![c] = Done(f, TRUE)]
            /\ running' = 0
            /\ UNCHANGED tasks
       ELSE /\ frames' = [frames EXCEPT ![c].pc = NextPoint(f.pc)]
            /\ running' = Holder(c, NextPoint(f.pc))
            /\ tasks' = IF f.id \in DOMAIN tasks
                        THEN [tasks EXCEPT ![f.id] = Statement(f, @, now)]
                        ELSE tasks
    /\ UNCHANGED <<handlers, nextId, now, ret, obs,
                 schedVars, files, dlVars>>

\* the writes of the accepted call f that have not been executed yet
Remaining(f, task, clock) ==
    LET RECURSIVE Run(_, _)
        Run(g, t) == IF g.pc \in {"return", "done"} THEN t
                     ELSE Run([g EXCEPT !.pc = NextPoint(g.pc)],
                              Statement(g, t, clock))
    IN Run(f, task)

\* task_id is in the middle of an update: its status has been written by a
\* call whose other writes are still to come and would change the record
Torn(store, task_id, clock) ==
    /\ task_id \in DOMAIN store
    /\ \E c \in Coroutines :
        /\ frames[c].id = task_id
        /\ frames[c].pc \in {"file_path", "error_message", "progress",
                              "completed_at"}
        /\ Remaining(frames[c], store[task_id], clock) # store[task_id]

Observed(op, ids) ==
    [op |-> op, torn |-> \E id \in ids : Torn(tasks, id, now)]

\* a reader runs on the event loop
Read(op, ids) ==
    /\ running = 0
    /\ obs' = Observed(op, ids)
    /\ UNCHANGED <<handlers, tasks, nextId, now, ret, frames, running,
                 schedVars, files, dlVars>>

\* get_active_tasks()
get_active_tasks ==
    Read("get_active_tasks",
         {id \in DOMAIN tasks : tasks[id].status \in {PENDING, DOWNLOADING}})

\* get_user_tasks(user_id)
get_user_tasks(user_id) ==
    Read("get_user_tasks",
         {id \in DOMAIN tasks : tasks[id].user_id = user_id})

\* create_task, called once: it makes the task the later calls are about
LoopCreate ==
    /\ running = 0
    /\ uuid4 \in LoopIds
    /\ \E url \in Urls, user_id \in UserIds, platform \in Platforms :
        LET task_id == uuid4 IN
        /\ tasks' = [id \in DOMAIN tasks \cup {task_id} |->
                        IF id = task_id
                        THEN DownloadTask(task_id, url, user_id, platform, now)
                        ELSE tasks[id]]
        /\ nextId' = task_id
    /\ UNCHANGED <<handlers, now, ret, frames, running, obs,
                 schedVars, files, dlVars>>

LoopCall ==
    \E c \in Coroutines, task_id \in LoopIds, new_status \in LoopStatuses,
       a \in LoopArgs :
        Call(c, task_id, new_status, a[1], a[2], a[3])

LoopStep == \E c \in Coroutines : Step(c)

LoopGetStatus == \E task_id \in LoopIds : Read("get_task_status", {task_id})

LoopGetResult == \E task_id \in LoopIds : Read("get_task_result", {task_id})

LoopGetActive == get_active_tasks

LoopGetUser == \E user_id \in UserIds : get_user_tasks(user_id)

\* cleanup_completed_tasks reads every task and deletes the expired ones
LoopCleanup ==
    /\ running = 0
    /\ \E max_age_minutes \in LoopAges :
        /\ obs' = Observed("cleanup_completed_tasks", DOMAIN tasks)
        /\ tasks' = Without(tasks, TasksToRemove(tasks, max_age_minutes, now))
    /\ UNCHANGED <<handlers, nextId, now, ret, frames, running,
                 schedVars, files, dlVars>>

LoopTick ==
    /\ now < MaxTime
    /\ now' = now + 1
    /\ UNCHANGED <<handlers, tasks, nextId, ret, frames, running, obs,
                 schedVars, files, dlVars>>

NextLoop ==
    \/ LoopCreate
    \/ LoopCall
    \/ LoopStep
    \/ LoopGetStatus
    \/ LoopGetResult
    \/ LoopGetActive
    \/ LoopGetUser
    \/ LoopCleanup
    \/ LoopTick

SpecLoop == Init /\ [][NextLoop]_vars

----------------------------------------------------------------------------
(* SpecSched: the BackgroundTaskScheduler (background_tasks.py) on the event *)
(* loop, next to the handlers that create and update tasks                  *)

\* the configured max_task_age_minutes and max_file_age_hours
max_task_age_minutes == MaxAge

max_file_age_hours == 0

\* timedelta(hours=max_age_hours), in clock units
timedelta_hours(hours) == 60 * hours

\* the configured file_cleanup_interval_hours and task_cleanup_interval_minutes
file_cleanup_interval_hours == 1

task_cleanup_interval_minutes == 30

\* the seconds a loop sleeps after a cleanup call that raised
BackoffSleep == 60

\* the seconds a loop sleeps after a cleanup call that returned
IntervalSleep(coro) ==
    IF coro = "_file_cleanup_loop"
    THEN file_cleanup_interval_hours * 3600
    ELSE task_cleanup_interval_minutes * 60

\* asyncio.create_task(coro): a task that has not run yet.  sleep is the
\* length of the sleep the task is in, fails the number of cleanup calls that
\* raised since the last one that returned
NewTask(coro) ==
    [coro |-> coro, at |-> "created", must_cancel |-> FALSE, sleep |-> 0,
     fails |-> 0]

\* variant: the loop goes round again without sleeping
AfterPassNoSleep(t) == [t EXCEPT !.at = "interval", !.sleep = 0, !.fails = 0]

\* variant: an exception of the cleanup call ends the loop
AfterRaiseEnds(t) == [t EXCEPT !.at = "done", !.sleep = 0, !.fails = 0]

\* except Exception: the error is logged and the loop sleeps before it
\* evaluates its while condition again
AfterRaise(t) ==
    [t EXCEPT !.at = "backoff", !.sleep = BackoffSleep, !.fails = @ + 1]

\* variant: one handler for both loops, which sends every live loop into
\* the backoff
OnRaiseAll(a, h) ==
    [g \in DOMAIN a |-> IF a[g].at # "done" THEN AfterRaise(a[g]) ELSE a[g]]

\* the except clause belongs to the coroutine whose cleanup call raised:
\* the asyncio tasks after loop h has caught the exception
OnRaise(a, h) == [a EXCEPT ![h] = AfterRaise(@)]

\* the cleanup call returned: the loop sleeps until the next interval
AfterPass(t) ==
    [t EXCEPT !.at = "interval", !.sleep = IntervalSleep(t.coro), !.fails = 0]

\* not task.done()
Alive(a, h) == a[h].at # "done"

\* variant: the request to cancel is lost
cancel_lost(a, h) == a

\* task.cancel(): CancelledError is thrown into the coroutine when it next
\* runs; a task that is done is left alone
cancel(a, h) == IF Alive(a, h) THEN [a EXCEPT ![h].must_cancel = TRUE] ELSE a

\* stop() from line 90 on: cancel the task loop and await it; awaiting a task
\* that is done does not suspend
StopTaskLoop(a) ==
    IF _task_cleanup_task # None /\ Alive(a, _task_cleanup_task[1])
    THEN [aio |-> cancel(a, _task_cleanup_task[1]), pc |-> "await_task",
          awaiting |-> _task_cleanup_task[1]]
    ELSE [aio |-> a, pc |-> "idle", awaiting |-> 0]

\* stop() from line 83 on: cancel the file loop and await it
StopFileLoop(a) ==
    IF _file_cleanup_task # None /\ Alive(a, _file_cleanup_task[1])
    THEN [aio |-> cancel(a, _file_cleanup_task[1]), pc |-> "await_file",
          awaiting |-> _file_cleanup_task[1]]
    ELSE StopTaskLoop(a)

\* the files cleanup_old_files deletes
OldFiles(fs, max_age_hours, current_time) ==
    {p \in DOMAIN fs : current_time - fs[p].mtime > timedelta_hours(max_age_hours)}

\* variant: the pass of the task loop empties the store
TaskPassEvictsAll(store, current_time) == Without(store, DOMAIN store)

\* the store after task_manager.cleanup_completed_tasks(max_task_age_minutes)
TaskPass(store, current_time) ==
    Without(store, TasksToRemove(store, max_task_age_minutes, current_time))

\* variant: start() does not look at _running
start_unguarded ==
    /\ Len(aio) < 2 * MaxStarts
    /\ _running' = TRUE
    /\ aio' = aio \o <<NewTask("_file_cleanup_loop"),
                       NewTask("_task_cleanup_loop")>>
    /\ _file_cleanup_task' = Some(Len(aio) + 1)
    /\ _task_cleanup_task' = Some(Len(aio) + 2)
    /\ ret' = Returned("start", 0, 0, TRUE, 0, None, None)
    /\ UNCHANGED <<handlers, tasks, nextId, now, frames, running, obs, stops,
                   files,
                   dlVars>>

\* start(): no await, so the call is one step of the event loop
start ==
    /\ Len(aio) < 2 * MaxStarts
    /\ IF _running
       THEN UNCHANGED <<_running, aio, _file_cleanup_task, _task_cleanup_task>>
       ELSE /\ _running' = TRUE
            /\ aio' = aio \o <<NewTask("_file_cleanup_loop"),
                               NewTask("_task_cleanup_loop")>>
            /\ _file_cleanup_task' = Some(Len(aio) + 1)
            /\ _task_cleanup_task' = Some(Len(aio) + 2)
    /\ ret' = Returned("start", 0, 0, ~_running, 0, None, None)
    /\ UNCHANGED <<handlers, tasks, nextId, now, frames, running, obs, stops,
                   files,
                   dlVars>>

\* variant: stop() does not look at _running
stop_unguarded(k) ==
    /\ stops[k].pc = "idle"
    /\ LET r == StopFileLoop(aio) IN
       /\ _running' = FALSE
       /\ aio' = r.aio
       /\ stops' = [stops EXCEPT ![k] = [pc |-> r.pc, awaiting |-> r.awaiting]]
       /\ ret' = IF r.pc = "idle"
                 THEN Returned("stop", k, 0, TRUE, 0, None, None)
                 ELSE ret
    /\ UNCHANGED <<handlers, tasks, nextId, now, frames, running, obs,
                   _file_cleanup_task, _task_cleanup_task, files, dlVars>>

\* stop() up to its return or its first suspension
stop(k) ==
    /\ stops[k].pc = "idle"
    /\ IF ~_running
       THEN /\ ret' = Returned("stop", k, 0, FALSE, 0, None, None)
            /\ UNCHANGED <<_running, aio, stops>>
       ELSE LET r == StopFileLoop(aio) IN
            /\ _running' = FALSE
            /\ aio' = r.aio
            /\ stops' = [stops EXCEPT ![k] = [pc |-> r.pc, awaiting |-> r.awaiting]]
            /\ ret' = IF r.pc = "idle"
                      THEN Returned("stop", k, 0, TRUE, 0, None, None)
                      ELSE ret
    /\ UNCHANGED <<handlers, tasks, nextId, now, frames, running, obs,
                   _file_cleanup_task, _task_cleanup_task, files, dlVars>>

\* the task a suspended stop() awaits is done: stop() runs on
stop_resume(k) ==
    /\ stops[k].pc # "idle"
    /\ ~Alive(aio, stops[k].awaiting)
    /\ LET r == IF stops[k].pc = "await_file"
                THEN StopTaskLoop(aio)
                ELSE [aio |-> aio, pc |-> "idle", awaiting |-> 0]
       IN /\ aio' = r.aio
          /\ stops' = [stops EXCEPT ![k] = [pc |-> r.pc, awaiting |-> r.awaiting]]
          /\ ret' = IF r.pc = "idle"
                    THEN Returned("stop", k, 0, TRUE, 0, None, None)
                    ELSE ret
    /\ UNCHANGED <<handlers, tasks, nextId, now, frames, running, obs, _running,
                   _file_cleanup_task, _task_cleanup_task, files, dlVars>>

\* the event loop runs asyncio task h: it starts, or its sleep is over, or
\* CancelledError is thrown into it.  A cancelled task ends (before its first
\* statement, through the except clause of the interval sleep, or out of the
\* backoff sleep); otherwise the while condition is evaluated and one pass is
\* made, which returns or raises (at most MaxFails times in a row)
loop_step(h) ==
    /\ Alive(aio, h)
    /\ IF aio[h].must_cancel \/ ~_running
       THEN /\ aio' = [aio EXCEPT ![h] = [@ EXCEPT !.at = "done",
                                                   !.must_cancel = FALSE,
                                                   !.sleep = 0, !.fails = 0]]
            /\ ret' = Returned(aio[h].coro, h, 0, FALSE, 0, Some("exit"), None)
            /\ UNCHANGED <<tasks, files>>
       ELSE \E raises \in BOOLEAN :
            IF raises
            THEN /\ aio[h].fails < MaxFails
                 /\ aio' = OnRaise(aio, h)
                 /\ ret' = Returned(aio[h].coro, h, 0, FALSE, 0,
                                    Some("raise"), None)
                 /\ UNCHANGED <<tasks, files>>
            ELSE /\ aio' = [aio EXCEPT ![h] = AfterPass(@)]
                 /\ IF aio[h].coro = "_task_cleanup_loop"
                    THEN /\ tasks' = TaskPass(tasks, now)
                         /\ ret' = Returned(aio[h].coro, h, max_task_age_minutes,
                                TRUE,
                                Cardinality(DOMAIN tasks)
                                    - Cardinality(DOMAIN TaskPass(tasks, now)),
                                Some("pass"), None)
                         /\ UNCHANGED files
                    ELSE /\ files' = Without(files,
                                OldFiles(files, max_file_age_hours, now))
                         /\ ret' = Returned(aio[h].coro, h, max_file_age_hours,
                                TRUE,
                                Cardinality(OldFiles(files, max_file_age_hours, now)),
                                Some("pass"), None)
                         /\ UNCHANGED tasks
    /\ UNCHANGED <<handlers, nextId, now, frames, running, obs, _running,
                   _file_cleanup_task, _task_cleanup_task, stops, dlVars>>

run_file_cleanup_now ==
    /\ files' = Without(files, OldFiles(files, max_file_age_hours, now))
    /\ ret' = Returned("run_file_cleanup_now", 0, max_file_age_hours, TRUE,
                       Cardinality(OldFiles(files, max_file_age_hours, now)),
                       None, None)
    /\ UNCHANGED <<handlers, tasks, nextId, now, frames, running, obs,
                   schedVars, dlVars>>

\* variant: the manual trigger evicts with a maximum age of zero
run_task_cleanup_now_age_zero ==
    /\ tasks' = Without(tasks, TasksToRemove(tasks, 0, now))
    /\ ret' = Returned("run_task_cleanup_now", 0, max_task_age_minutes, TRUE,
                       Cardinality(TasksToRemove(tasks, 0, now)), None, None)
    /\ UNCHANGED <<handlers, nextId, now, frames, running, obs, schedVars,
                   files, dlVars>>

run_task_cleanup_now ==
    /\ tasks' = TaskPass(tasks, now)
    /\ ret' = Returned("run_task_cleanup_now", 0, max_task_age_minutes, TRUE,
                       Cardinality(DOMAIN tasks)
                           - Cardinality(DOMAIN TaskPass(tasks, now)),
                       None, None)
    /\ UNCHANGED <<handlers, nextId, now, frames, running, obs, schedVars,
                   files, dlVars>>

Stop == \E k \in StopCallers : stop(k)

StopResume == \E k \in StopCallers : stop_resume(k)

LoopTaskStep == \E h \in DOMAIN aio : loop_step(h)

\* the scheduler's life cycle: start(), stop() and the two loops
NextSched ==
    \/ start
    \/ Stop
    \/ StopResume
    \/ LoopTaskStep
    \/ run_file_cleanup_now
    \/ run_task_cleanup_now

SpecSched == Init /\ [][NextSched]_vars

\* the life cycle as main.py drives it: one coroutine calls start() and stop()
NextLoops ==
    \/ start
    \/ stop(1)
    \/ stop_resume(1)
    \/ LoopTaskStep

\* the event loop runs every task that is ready: a task that was created,
\* whose sleep is over or that was cancelled gets its step, and a stop()
\* that awaits a task which is done is resumed
FairSched ==
    /\ Init
    /\ [][NextLoops]_vars
    /\ \A h \in 1..(2 * MaxStarts) : WF_vars(h \in DOMAIN aio /\ loop_step(h))
    /\ WF_vars(stop_resume(1))

\* SpecEvict: the handlers' calls on one task while the clock advances and
\* the started scheduler's loops make their passes
NextEvict ==
    \/ LoopCreate
    \/ PlainUpdate
    \/ GetStatus
    \/ Tick
    \/ start
    \/ LoopTaskStep
    \/ run_task_cleanup_now
    \/ run_file_cleanup_now

SpecEvict == Init /\ [][NextEvict]_vars

----------------------------------------------------------------------------
(* SpecDownload: the VideoDownloader (video_downloader.py).  download_video  *)
(* runs on the event loop up to run_in_executor; _download_sync and the      *)
(* progress hook run on a worker thread; the fetch library and the file      *)
(* system are the environment.  A file name is the sequence of its           *)
(* dot-separated parts, a text the sequence of its words, sizes are counted  *)
(* in units of which max_file_size_bytes is two.                             *)

max_file_size_bytes == 2

\* storage_manager.get_temp_path: a name no other caller is given
get_temp_path(c) == <<IF c = 1 THEN "a" ELSE "c", "mp4">>

\* the sizes a probe declares and a written file has
Sizes == {1, 3}

\* what extract_info returns: <<filesize, filesize_approx>>
Infos ==
    {<<None, None>>, <<Some(1), None>>, <<Some(3), None>>, <<None, Some(3)>>,
     <<Some(0), Some(3)>>, <<Some(1), Some(3)>>}

\* the exceptions the fetch library and the file system raise
ErrorTexts == {<<"Video", "Unavailable">>, <<"Page", "Not", "Found">>, <<"Timed", "out">>}

Exceptions ==
    {[type |-> t, text |-> x] : t \in {"DownloadError", "Exception"}, x \in ErrorTexts}

\* the events the fetch library passes to the progress hook:
\* <<status, downloaded_bytes, total_bytes, total_bytes_estimate>>
Events ==
    {<<"downloading", 1, Some(2), None>>,
     <<"downloading", 3, None, Some(2)>>,
     <<"downloading", 1, Some(0), None>>,
     <<"downloading", 1, None, None>>,
     <<"finished", 3, None, None>>}

\* str.lower(), word by word
Lower(word) ==
    CASE word = "Unavailable" -> "unavailable"
      [] word = "Not" -> "not"
      [] word = "Found" -> "found"
      [] word = "Video" -> "video"
      [] word = "Page" -> "page"
      [] word = "Timed" -> "timed"
      [] OTHER -> word

\* needle in text.lower()
Contains(needle, text) ==
    \E i \in 1..Len(text) :
        /\ i + Len(needle) - 1 <= Len(text)
        /\ \A j \in 1..Len(needle) : Lower(text[i + j - 1]) = needle[j]

\* a or b on two values of which None and 0 are falsy
PyOr(a, b) == IF a # None /\ a[1] # 0 THEN a ELSE b

DownloadResult(success, file_path, error_message, file_size) ==
    [success |-> success, file_path |-> file_path,
     error_message |-> error_message, file_size |-> file_size]

Failure(error_message) == DownloadResult(FALSE, None, Some(error_message), 0)

\* lines 203-229: the result for an exception raised inside _download_sync
MapError(e) ==
    IF e.type = "DownloadError"
    THEN IF Contains(<<"unavailable">>, e.text)
         THEN Failure(<<"Video is unavailable or private">>)
         ELSE IF Contains(<<"not", "found">>, e.text)
         THEN Failure(<<"Video not found">>)
         ELSE Failure(<<"Download failed: ">> \o e.text)
    ELSE Failure(<<"Unexpected error: ">> \o e.text)

\* variant: download_video has no except clause
CatchNone(e) == [result |-> None, raised |-> Some(e)]

\* lines 111-121: what download_video does with an exception raised in its
\* own body: the except clause turns it into a result
CatchAll(e) ==
    [result |-> Some(Failure(<<"Download error: ">> \o e.text)), raised |-> None]

\* variant: only the exact size is looked at
ProbeResultExactOnly(info) ==
    IF info[1] # None /\ info[1][1] > max_file_size_bytes
    THEN Some(Failure(<<"Video too large: ", info[1][1], max_file_size_bytes>>))
    ELSE None

\* lines 141-152: the result of the size check on the probe's answer, None
\* when the download goes ahead
ProbeResult(info) ==
    LET filesize == PyOr(info[1], info[2]) IN
    IF filesize # None /\ filesize[1] # 0 /\ filesize[1] > max_file_size_bytes
    THEN Some(Failure(<<"Video too large: ", filesize[1], max_file_size_bytes>>))
    ELSE None

\* Path(output_path).stem with the parent's name left out
Stem(path) == IF Len(path) > 1 THEN SubSeq(path, 1, Len(path) - 1) ELSE path

\* base_path.parent.glob(f"{base_path.stem}.*")
Glob(fs, stem) ==
    {p \in DOMAIN fs : Len(p) > Len(stem) /\ SubSeq(p, 1, Len(stem)) = stem}

\* variant: the search takes any file of the directory
LocatedAnywhere(fs, output_path) ==
    IF output_path \in DOMAIN fs THEN {output_path} ELSE DOMAIN fs

\* lines 159-168: the paths the verification may go on with; the directory
\* lists the matching files in an order of its own
Located(fs, output_path) ==
    IF output_path \in DOMAIN fs
    THEN {output_path}
    ELSE Glob(fs, Stem(output_path))

\* variant: the final size check is left out
VerifyResultUnchecked(fs, path) ==
    DownloadResult(TRUE, Some(path), None, fs[path].size)

\* lines 175-201: the result for the file at path
VerifyResult(fs, path) ==
    IF fs[path].size > max_file_size_bytes
    THEN Failure(<<"Downloaded file too large: ", fs[path].size, max_file_size_bytes>>)
    ELSE DownloadResult(TRUE, Some(path), None, fs[path].size)

\* variant: the file that is too large stays
VerifyFilesKeeps(fs, path) == fs

\* lines 179-180: os.remove(output_path) when the file is too large
VerifyFiles(fs, path) ==
    IF fs[path].size > max_file_size_bytes THEN Without(fs, {path}) ELSE fs

\* a / b on floats, in tenths
Div(a, b) == (a * One) \div b

\* lines 77-82: the fraction for a 'downloading' event
HookProgress(d) ==
    IF d[3] # None THEN Div(d[2], d[3][1])
    ELSE IF d[4] # None THEN Div(d[2], d[4][1])
    ELSE 0

\* whether lines 77-82 raise ZeroDivisionError
HookRaises(d) ==
    /\ d[1] = "downloading"
    /\ \/ d[3] # None /\ d[3][1] = 0
       \/ d[3] = None /\ d[4] # None /\ d[4][1] = 0

\* self.active_downloads[download_id] = progress
Put(dict, key, value) ==
    [k \in DOMAIN dict \cup {key} |-> IF k = key THEN value ELSE dict[k]]

\* the record of a call that has returned
DownloadReturned(op, c, id, result, f) ==
    [op |-> op, caller |-> c, id |-> id, result |-> result, raised |-> None,
     started |-> f.started, forgotten |-> f.forgotten]

\* the files the transfer of a download leaves when it reports completion
TransferWrites(output_path) ==
    LET stem == Stem(output_path) IN
    {<<>>} \cup
    {[p \in {output_path} |-> [size |-> n, mtime |-> now]] : n \in Sizes} \cup
    {[p \in {stem \o <<"webm">>} |-> [size |-> n, mtime |-> now]] : n \in Sizes} \cup
    {[p \in {stem \o <<"webm">>, output_path \o <<"part">>} |->
        [size |-> IF p = stem \o <<"webm">> THEN 3 ELSE 1, mtime |-> now]]}

\* the directory after the files in written have been written
Write(fs, written) ==
    [p \in DOMAIN fs \cup DOMAIN written |->
        IF p \in DOMAIN written THEN written[p] ELSE fs[p]]

\* download_video from its entry to the await at line 98, or to its return
\* when preparing the directory raises
download_video_begin(c, url, output_path, callback) ==
    /\ downloads[c].pc = "idle"
    /\ Glob(files, Stem(output_path)) = {}
    /\ \E mkdir_raises \in BOOLEAN :
        IF mkdir_raises
        THEN LET caught == CatchAll([type |-> "Exception",
                                     text |-> <<"Permission", "denied">>])
             IN /\ active_downloads' = Without(active_downloads, {url})
                /\ dret' = [DownloadReturned("download_video", c, url,
                                             caught.result, IdleDownload)
                                EXCEPT !.raised = caught.raised]
                /\ UNCHANGED downloads
        ELSE /\ active_downloads' = Put(active_downloads, url, 0)
             /\ downloads' = [downloads EXCEPT ![c] =
                    [IdleDownload EXCEPT !.pc = "probe", !.url = url,
                                         !.output_path = output_path,
                                         !.callback = callback]]
             /\ UNCHANGED dret

\* download_video called by itself
download_video(c, url, output_path, callback) ==
    /\ download_video_begin(c, url, output_path, callback)
    /\ UNCHANGED <<handlers, tasks, nextId, now, ret, frames, running, obs,
                   schedVars, files, reported>>

\* the worker returns from _download_sync with result r
Resolve(c, r) ==
    downloads' = [downloads EXCEPT ![c].pc = "resolved", ![c].result = Some(r)]

\* line 138: extract_info raises
probe_raises(c, e) ==
    /\ downloads[c].pc = "probe"
    /\ Resolve(c, MapError(e))
    /\ UNCHANGED <<handlers, tasks, nextId, now, ret, frames, running, obs,
                   schedVars,
                   files, active_downloads, reported, dret>>

\* lines 138-156: extract_info returns info; the declared size is checked
\* and, when it passes, ydl.download is called
probe_returns(c, info) ==
    /\ downloads[c].pc = "probe"
    /\ IF ProbeResult(info) # None
       THEN Resolve(c, ProbeResult(info)[1])
       ELSE downloads' = [downloads EXCEPT ![c].pc = "transfer",
                                           ![c].started = TRUE]
    /\ UNCHANGED <<handlers, tasks, nextId, now, ret, frames, running, obs,
                   schedVars,
                   files, active_downloads, reported, dret>>

\* lines 75-92: the fetch library calls the progress hook with event d; an
\* exception of the hook ends the transfer
progress_hook_body(c, d) ==
    LET f == downloads[c] IN
    /\ f.pc = "transfer"
    /\ IF HookRaises(d)
       THEN /\ \E t \in {"DownloadError", "Exception"} :
                Resolve(c, MapError([type |-> t, text |-> <<"division", "by", "zero">>]))
            /\ UNCHANGED <<active_downloads, reported>>
       ELSE LET progress == IF d[1] = "finished" THEN One ELSE HookProgress(d) IN
            /\ active_downloads' = Put(active_downloads, f.url, progress)
            /\ reported' = IF f.callback THEN Some(progress) ELSE reported
            /\ UNCHANGED downloads

\* the hook of a download whose callback, if any, leaves the store alone
progress_hook(c, d) ==
    /\ progress_hook_body(c, d)
    /\ UNCHANGED <<handlers, tasks, nextId, now, ret, frames, running, obs,
                   schedVars, files, dret>>

\* line 156: ydl.download returns, having written its files, or raises
transfer_ends(c) ==
    /\ downloads[c].pc = "transfer"
    /\ \/ /\ \E e \in Exceptions : Resolve(c, MapError(e))
          /\ UNCHANGED files
       \/ \E written \in TransferWrites(downloads[c].output_path) :
            /\ files' = Write(files, written)
            /\ downloads' = [downloads EXCEPT ![c].pc = "verify"]
    /\ UNCHANGED <<handlers, tasks, nextId, now, ret, frames, running, obs,
                   schedVars,
                   active_downloads, reported, dret>>

\* lines 158-201: find the file, check its size, delete it when too large
verify(c) ==
    LET f == downloads[c] IN
    /\ f.pc = "verify"
    /\ IF Located(files, f.output_path) = {}
       THEN /\ Resolve(c, Failure(<<"Downloaded file not found">>))
            /\ UNCHANGED files
       ELSE \E path \in Located(files, f.output_path) :
            /\ Resolve(c, VerifyResult(files, path))
            /\ files' = VerifyFiles(files, path)
    /\ UNCHANGED <<handlers, tasks, nextId, now, ret, frames, running, obs,
                   schedVars,
                   active_downloads, reported, dret>>

\* variant: the call returns without touching the bookkeeping
download_video_end_keeps(c) ==
    LET f == downloads[c] IN
    /\ f.pc = "resolved"
    /\ UNCHANGED active_downloads
    /\ dret' = DownloadReturned("download_video", c, f.url, f.result, f)
    /\ downloads' = [downloads EXCEPT ![c] = IdleDownload]

\* lines 105-109: the coroutine resumes with the worker's result
download_video_end(c) ==
    LET f == downloads[c] IN
    /\ f.pc = "resolved"
    /\ active_downloads' = Without(active_downloads, {f.url})
    /\ dret' = DownloadReturned("download_video", c, f.url, f.result, f)
    /\ downloads' = [downloads EXCEPT ![c] = IdleDownload]

\* download_video returns to a caller that does nothing more
download_return(c) ==
    /\ download_video_end(c)
    /\ UNCHANGED <<handlers, tasks, nextId, now, ret, frames, running, obs,
                   schedVars, files, reported>>

\* self.active_downloads.get(download_id, 0.0)
get_download_progress(download_id) ==
    IF download_id \in DOMAIN active_downloads
    THEN active_downloads[download_id]
    ELSE 0

\* variant: the call also ends the fetch of the id
cancel_download_aborts(download_id) ==
    /\ active_downloads' = Without(active_downloads, {download_id})
    /\ downloads' = [c \in DOMAIN downloads |->
            IF downloads[c].pc \in {"probe", "transfer"}
               /\ downloads[c].url = download_id
            THEN [downloads[c] EXCEPT !.pc = "resolved",
                                      !.result = Some(Failure(<<"Cancelled">>)),
                                      !.forgotten = TRUE]
            ELSE downloads[c]]
    /\ dret' = DownloadReturned("cancel_download", 0, download_id, None,
                                IdleDownload)
    /\ UNCHANGED <<handlers, tasks, nextId, now, ret, frames, running, obs,
                   schedVars,
                   files, reported>>

\* cancel_download(download_id); a call whose fetch for the id has not ended
\* notes that it has been forgotten
cancel_download(download_id) ==
    /\ active_downloads' = Without(active_downloads, {download_id})
    /\ downloads' = [c \in DOMAIN downloads |->
            IF downloads[c].pc \in {"probe", "transfer"}
               /\ downloads[c].url = download_id
            THEN [downloads[c] EXCEPT !.forgotten = TRUE]
            ELSE downloads[c]]
    /\ dret' = DownloadReturned("cancel_download", 0, download_id, None,
                                IdleDownload)
    /\ UNCHANGED <<handlers, tasks, nextId, now, ret, frames, running, obs,
                   schedVars,
                   files, reported>>

DownloadVideo ==
    \E c \in DownloadCallers, url \in Urls, callback \in BOOLEAN :
        download_video(c, url, get_temp_path(c), callback)

Probe ==
    \E c \in DownloadCallers :
        \/ \E e \in Exceptions : probe_raises(c, e)
        \/ \E info \in Infos : probe_returns(c, info)

ProgressHook == \E c \in DownloadCallers, d \in Events : progress_hook(c, d)

TransferEnds == \E c \in DownloadCallers : transfer_ends(c)

Verify == \E c \in DownloadCallers : verify(c)

DownloadReturn == \E c \in DownloadCallers : download_return(c)

CancelDownload == \E download_id \in Urls : cancel_download(download_id)

NextDownload ==
    \/ DownloadVideo
    \/ Probe
    \/ ProgressHook
    \/ TransferEnds
    \/ Verify
    \/ DownloadReturn
    \/ CancelDownload

SpecDownload == Init /\ [][NextDownload]_vars

\* the worker thread runs, the fetch library returns or raises, and the event
\* loop resumes the coroutine whose executor future is done
FairDownload ==
    /\ SpecDownload
    /\ WF_vars(Probe)
    /\ WF_vars(TransferEnds)
    /\ WF_vars(Verify)
    /\ WF_vars(DownloadReturn)

\* SpecOverlap: two coroutines call download_video, for the same URL
NextOverlap ==
    \/ \E c \in Overlapping, url \in Urls :
            download_video(c, url, get_temp_path(c), FALSE)
    \/ \E c \in Overlapping :
            \/ \E e \in Exceptions : probe_raises(c, e)
            \/ \E info \in Infos : probe_returns(c, info)
    \/ \E c \in Overlapping, d \in Events : progress_hook(c, d)
    \/ \E c \in Overlapping : transfer_ends(c)
    \/ \E c \in Overlapping : verify(c)
    \/ \E c \in Overlapping : download_return(c)
    \/ CancelDownload

SpecOverlap == Init /\ [][NextOverlap]_vars

----------------------------------------------------------------------------
(* SpecBot: the BotHandler (bot_handler.py) with the store and the           *)
(* downloader.  A handler runs on the event loop and gives it up where it    *)
(* awaits the Telegram API or the worker thread of its download.  A text is  *)
(* the sequence of its chunks, " " being white space.                        *)

\* the texts users send
Texts == {<<>>, <<" ">>, <<"u1">>, <<" ", "u1", " ">>, <<"u2">>, <<"u3">>, <<"u4">>}

\* message.text: a message may carry no text
Messages == {None} \cup {Some(t) : t \in Texts}

\* str.strip(): the text without the white space at its ends
RECURSIVE strip(_)
strip(text) ==
    IF text = <<>> THEN ""
    ELSE IF Head(text) = " " THEN strip(Tail(text))
    ELSE IF text[Len(text)] = " " THEN strip(SubSeq(text, 1, Len(text) - 1))
    ELSE Head(text)

\* what urlparse and the platform patterns find in a URL: u1 is a TikTok
\* video, u2 has no scheme, u3 is on another site, u4 is a TikTok page
\* without a video id
Parsed(url) ==
    [scheme |-> url \in {"u1", "u3", "u4"},
     netloc |-> url \in {"u1", "u3", "u4"},
     site |-> IF url \in {"u1", "u2", "u4"} THEN "tiktok.com" ELSE "example.com",
     video_id |-> IF url = "u1" THEN Some("v1") ELSE None]

ValidationResult(is_valid, platform, video_id, error_message) ==
    [is_valid |-> is_valid, platform |-> platform, video_id |-> video_id,
     error_message |-> error_message]

get_platform(url) ==
    IF Parsed(url).site \in {"youtube.com/shorts", "youtu.be"}
    THEN "youtube_shorts"
    ELSE IF Parsed(url).site \in {"tiktok.com", "vm.tiktok.com", "vt.tiktok.com"}
    THEN "tiktok"
    ELSE "unsupported"

validate_url(url) ==
    IF url = ""
    THEN ValidationResult(FALSE, "unsupported", None,
                          Some("URL must be a non-empty string"))
    ELSE IF ~Parsed(url).scheme \/ ~Parsed(url).netloc
    THEN ValidationResult(FALSE, "unsupported", None,
                          Some("Invalid URL format"))
    ELSE IF get_platform(url) = "unsupported"
    THEN ValidationResult(FALSE, "unsupported", None,
                          Some("Unsupported platform"))
    ELSE IF Parsed(url).video_id = None
    THEN ValidationResult(FALSE, get_platform(url), None,
                          Some("Could not extract video ID"))
    ELSE ValidationResult(TRUE, get_platform(url), Parsed(url).video_id, None)

\* variant: the handlers go on whatever the validation says
ProceedsAlways(v) == TRUE

\* `if not validation_result.is_valid: ... return`: the handlers go on only
\* with a result that is valid
Proceeds(v) == v.is_valid

\* the handler record of a request that passed validation
Accepted(kind, pc, task_id, url, user_id, v) ==
    [pc |-> pc, kind |-> kind, task_id |-> task_id, url |-> url,
     user_id |-> user_id, video_id |-> v.video_id, platform |-> v.platform]

\* the store after DownloadTaskManager.create_task
Created(store, task_id, url, user_id, platform) ==
    Put(store, task_id, DownloadTask(task_id, url, user_id, platform, now))

\* progress_callback(progress) as progress_hook calls it: the callback is an
\* async def and the hook, on the worker thread, does not await it, so the
\* call builds a coroutine object that never runs and the store stays as it is
progress_callback(store, task_id, progress) == store

\* handle_message up to its return or to the await of message.answer; h is
\* the handler that takes the request on when it is accepted
handle_message(h, user_id, text) ==
    /\ IF text = None \/ text[1] = <<>>
       THEN /\ ret' = Returned("handle_message", h, "", FALSE, 0, None, None)
            /\ UNCHANGED handlers
       ELSE LET url == strip(text[1])
                v == validate_url(url)
            IN IF ~Proceeds(v)
               THEN /\ ret' = Returned("handle_message", h, url, FALSE, 0,
                                       v.error_message, None)
                    /\ UNCHANGED handlers
               ELSE /\ handlers[h].pc = "idle"
                    /\ ret' = Returned("handle_message", h, url, TRUE, 0,
                                       None, None)
                    /\ handlers' = [handlers EXCEPT ![h] =
                            Accepted("message", "answer", 0, url, user_id, v)]
    /\ UNCHANGED <<tasks, nextId, now, frames, running, obs, schedVars, files,
                   dlVars>>

\* variant: the handler records every result as a completed download
RecordedCompleted(store, task_id, r) ==
    UpdateStore(store, task_id, COMPLETED, r.file_path, None, None, now)

\* `if download_result.success:` with its two update_task_status calls
\* (handle_message 169-195, _process_inline_download 416-431): the store
\* after the handler has recorded the result r of download_video
Recorded(store, task_id, r) ==
    IF r.success
    THEN UpdateStore(store, task_id, COMPLETED, r.file_path, None, None, now)
    ELSE UpdateStore(store, task_id, FAILED, None, r.error_message, None, now)

\* the download a handler starts for its task, and the store when
\* download_video has returned at once
StartDownload(h, store, task_id, callback) ==
    /\ download_video_begin(h, handlers[h].url, get_temp_path(h), callback)
    /\ IF downloads'[h].pc = "idle"
       THEN /\ tasks' = Recorded(store, task_id, dret'.result[1])
            /\ ret' = Returned(handlers[h].kind, h, 0, FALSE, 0,
                               dret'.result[1].error_message, None)
            /\ handlers' = [handlers EXCEPT ![h] = IdleHandler]
       ELSE /\ tasks' = store
            /\ ret' = ret
            /\ handlers' = [handlers EXCEPT ![h].pc = "download",
                                            ![h].task_id = task_id]

\* what the calls a handler makes between validation and download_video do:
\* the Telegram call raises, get_temp_path raises, or both return
Outcomes == {"answer_raises", "path_raises", "returns"}

\* the handler ends with an exception that download_video did not return
Raised(h) == Returned("raise", h, 0, FALSE, 0, None, None)

\* handle_message, lines 139-167: message.answer returns, the task is created
\* and set to downloading, and the download is started without a callback.
\* An exception of message.answer leaves the handler before the try
\* statement; one of get_temp_path is caught at line 208, where the user is
\* told and the task is left as it is
message_download(h) ==
    /\ handlers[h].pc = "answer"
    /\ handlers[h].kind = "message"
    /\ \E outcome \in Outcomes :
        LET store == UpdateStore(Created(tasks, uuid4, handlers[h].url,
                                         handlers[h].user_id,
                                         handlers[h].platform),
                                 uuid4, DOWNLOADING, None, None, None, now)
        IN CASE outcome = "answer_raises" ->
                    /\ handlers' = [handlers EXCEPT ![h] = IdleHandler]
                    /\ ret' = Raised(h)
                    /\ UNCHANGED <<tasks, nextId, active_downloads, downloads,
                                   dret>>
             [] outcome = "path_raises" ->
                    /\ nextId' = uuid4
                    /\ tasks' = store
                    /\ handlers' = [handlers EXCEPT ![h] = IdleHandler]
                    /\ ret' = Raised(h)
                    /\ UNCHANGED <<active_downloads, downloads, dret>>
             [] outcome = "returns" ->
                    /\ nextId' = uuid4
                    /\ StartDownload(h, store, uuid4, FALSE)
    /\ UNCHANGED <<now, frames, running, obs, schedVars, files, reported>>

\* variant: only a completed task counts as existing
ExistingCompletedOnly(store, user_id, url) ==
    {id \in DOMAIN store :
        /\ store[id].user_id = user_id
        /\ store[id].url = url
        /\ store[id].status = COMPLETED}

\* the tasks of the user for the URL that handle_inline_query answers from
Existing(store, user_id, url) ==
    {id \in DOMAIN store :
        /\ store[id].user_id = user_id
        /\ store[id].url = url
        /\ store[id].status \in {PENDING, DOWNLOADING, COMPLETED}}

\* handle_inline_query up to its return or to the await of the answer that
\* follows create_task
handle_inline_query(h, user_id, text) ==
    /\ LET url == strip(text)
           v == validate_url(url)
       IN IF url = ""
          THEN /\ ret' = Returned("handle_inline_query", h, url, FALSE, 0,
                                  Some("help"), None)
               /\ UNCHANGED <<tasks, nextId, handlers>>
          ELSE IF ~Proceeds(v)
          THEN /\ ret' = Returned("handle_inline_query", h, url, FALSE, 0,
                                  v.error_message, None)
               /\ UNCHANGED <<tasks, nextId, handlers>>
          ELSE IF Existing(tasks, user_id, url) # {}
          THEN /\ \E id \in Existing(tasks, user_id, url) :
                    ret' = Returned("handle_inline_query", h, url, TRUE, 0,
                                    None, Some(tasks[id]))
               /\ UNCHANGED <<tasks, nextId, handlers>>
          ELSE /\ handlers[h].pc = "idle"
               /\ nextId' = uuid4
               /\ tasks' = Created(tasks, uuid4, url, user_id, v.platform)
               /\ ret' = Returned("handle_inline_query", h, url, TRUE, 0,
                                  None, None)
               /\ handlers' = [handlers EXCEPT ![h] =
                        Accepted("inline", "answer", uuid4, url, user_id, v)]
    /\ UNCHANGED <<now, frames, running, obs, schedVars, files, dlVars>>

\* handle_inline_query from line 294 on and _process_inline_download, lines
\* 391-414: inline_query.answer returns, the asyncio task is created and
\* runs, the task is set to downloading and the download is started with the
\* progress callback.  An exception of inline_query.answer leaves the
\* handler before line 297, so that no asyncio task is created; one of
\* get_temp_path is caught at line 435, where the task is set to failed
process_inline_download(h) ==
    /\ handlers[h].pc = "answer"
    /\ handlers[h].kind = "inline"
    /\ \E outcome \in Outcomes :
        LET store == UpdateStore(tasks, handlers[h].task_id, DOWNLOADING,
                                 None, None, None, now)
        IN CASE outcome = "answer_raises" ->
                    /\ handlers' = [handlers EXCEPT ![h] = IdleHandler]
                    /\ ret' = Raised(h)
                    /\ UNCHANGED <<tasks, active_downloads, downloads, dret>>
             [] outcome = "path_raises" ->
                    /\ tasks' = UpdateStore(store, handlers[h].task_id, FAILED,
                                            None, Some(<<"No", "such", "file">>),
                                            None, now)
                    /\ handlers' = [handlers EXCEPT ![h] = IdleHandler]
                    /\ ret' = Raised(h)
                    /\ UNCHANGED <<active_downloads, downloads, dret>>
             [] outcome = "returns" ->
                    StartDownload(h, store, handlers[h].task_id, TRUE)
    /\ UNCHANGED <<nextId, now, frames, running, obs, schedVars, files,
                   reported>>

\* the progress hook of a handler's download, with the callback the handler
\* passed
handler_progress(h, d) ==
    /\ handlers[h].pc = "download"
    /\ progress_hook_body(h, d)
    /\ tasks' = IF downloads[h].callback /\ ~HookRaises(d)
                THEN progress_callback(tasks, handlers[h].task_id, reported'[1])
                ELSE tasks
    /\ UNCHANGED <<handlers, nextId, now, ret, frames, running, obs, schedVars,
                   files, dret>>

\* download_video returns to the handler, which records the outcome in the
\* store: lines 169-206 of handle_message, 416-433 of _process_inline_download
download_resumes(h) ==
    LET r == downloads[h].result[1]
        task_id == handlers[h].task_id
    IN
    /\ handlers[h].pc = "download"
    /\ download_video_end(h)
    /\ tasks' = Recorded(tasks, task_id, r)
    /\ IF r.success
       THEN /\ ret' = Returned(handlers[h].kind, h, 0, TRUE, 0, r.file_path,
                               Lookup(tasks', task_id))
            /\ handlers' = [handlers EXCEPT ![h] =
                    IF handlers[h].kind = "message"
                    THEN [@ EXCEPT !.pc = "send"]
                    ELSE IdleHandler]
       ELSE /\ ret' = Returned(handlers[h].kind, h, 0, FALSE, 0,
                               r.error_message, Lookup(tasks', task_id))
            /\ handlers' = [handlers EXCEPT ![h] = IdleHandler]
    /\ UNCHANGED <<nextId, now, frames, running, obs, schedVars, files,
                   reported>>

\* handle_message, lines 177-188: send_video has returned and the file is
\* deleted, or it has raised and the handler ends in its except clause
send_video(h) ==
    /\ handlers[h].pc = "send"
    /\ \E raises \in BOOLEAN :
        files' = IF raises
                 THEN files
                 ELSE Without(files, {tasks[handlers[h].task_id].file_path[1]})
    /\ handlers' = [handlers EXCEPT ![h] = IdleHandler]
    /\ UNCHANGED <<tasks, nextId, now, ret, frames, running, obs, schedVars,
                   dlVars>>

\* a request is taken on only while fewer than limit tasks have been created
TakenOnBelow(limit) == handlers' # handlers => nextId < limit

\* the handlers and the worker thread of their downloads; at most
\* MaxRequests requests are taken on
NextBot ==
    \/ \E h \in DownloadCallers, user_id \in UserIds, text \in Messages :
            handle_message(h, user_id, text) /\ TakenOnBelow(MaxRequests)
    \/ \E h \in DownloadCallers, user_id \in UserIds, text \in Texts :
            handle_inline_query(h, user_id, text) /\ TakenOnBelow(MaxRequests)
    \/ \E h \in DownloadCallers : message_download(h)
    \/ \E h \in DownloadCallers : process_inline_download(h)
    \/ \E h \in DownloadCallers, d \in Events : handler_progress(h, d)
    \/ \E h \in DownloadCallers : download_resumes(h)
    \/ \E h \in DownloadCallers : send_video(h)
    \/ Probe
    \/ TransferEnds
    \/ Verify

SpecBot == Init /\ [][NextBot]_vars

\* SpecInline: inline queries one after and beside the other, up to MaxTasks
\* of them taken on, each with its download
NextInline ==
    \/ \E h \in DownloadCallers, user_id \in UserIds, text \in Texts :
            handle_inline_query(h, user_id, text) /\ TakenOnBelow(MaxTasks)
    \/ \E h \in DownloadCallers : process_inline_download(h)
    \/ \E h \in DownloadCallers : download_resumes(h)
    \/ Probe
    \/ TransferEnds
    \/ Verify

SpecInline == Init /\ [][NextInline]_vars

\* the event loop runs every handler that is ready, and the worker thread
\* and the fetch library of a download go on until the fetch has returned
FairBot ==
    /\ SpecBot
    /\ \A h \in DownloadCallers :
        /\ WF_vars(message_download(h))
        /\ WF_vars(process_inline_download(h))
        /\ WF_vars(download_resumes(h))
        /\ WF_vars(send_video(h))
    /\ WF_vars(Probe)
    /\ WF_vars(TransferEnds)
    /\ WF_vars(Verify)

----------------------------------------------------------------------------
(* Properties of the task store *)

\* the transition table of the design, pair by pair
TransitionTable ==
    {<<PENDING, DOWNLOADING>>, <<PENDING, FAILED>>,
     <<DOWNLOADING, COMPLETED>>, <<DOWNLOADING, FAILED>>}

Terminal == {COMPLETED, FAILED}

\* C1: in every step every task either keeps its status or moves along a pair
\* of the transition table, so a Completed or Failed task never changes status
C1_StatusFollowsTable ==
    [][\A id \in DOMAIN tasks \cap DOMAIN tasks' :
            \/ tasks'[id].status = tasks[id].status
            \/ <<tasks[id].status, tasks'[id].status>> \in TransitionTable]_vars

\* a task has gone Pending -> Downloading -> Completed and a later update of
\* it has been turned down
C1_Witness ==
    /\ ret.op = "update_task_status"
    /\ ~ret.ok
    /\ ret.id \in DOMAIN tasks
    /\ tasks[ret.id].status = COMPLETED

\* C2: an update_task_status call asking for a transition outside the table
\* returns False and leaves the whole store, hence every field of the task,
\* as it was, whatever optional arguments it carries
C2_RejectedLeavesTask ==
    [][\A id \in DOMAIN tasks, new_status \in TaskStatus :
            (/\ ret'.op = "update_task_status"
             /\ ret'.id = id
             /\ ret'.val = Some(new_status)
             /\ <<tasks[id].status, new_status>> \notin TransitionTable
             /\ \E a \in UpdateArgs :
                    update_task_status(id, new_status, a[1], a[2], a[3]))
            => (ret'.ok = FALSE /\ tasks' = tasks)]_vars

\* a Pending task has been asked to go straight to Completed and is still
\* Pending with the fields create_task gave it
C2_Witness ==
    /\ ret.op = "update_task_status"
    /\ ret.val = Some(COMPLETED)
    /\ ~ret.ok
    /\ ret.id \in DOMAIN tasks
    /\ tasks[ret.id] =
         DownloadTask(ret.id, tasks[ret.id].url, tasks[ret.id].user_id,
                      tasks[ret.id].platform, tasks[ret.id].created_at)

\* C5: completed_at is unset while the task is Pending or Downloading, is set
\* once the task is Completed or Failed, and once set keeps its value for as
\* long as the task exists
C5_CompletedAtSetOnce ==
    [][\A id \in DOMAIN tasks' :
            /\ (tasks'[id].status \in Terminal) = (tasks'[id].completed_at # None)
            /\ (id \in DOMAIN tasks /\ tasks[id].completed_at # None)
               => tasks'[id].completed_at = tasks[id].completed_at]_vars

\* a task that failed at an earlier clock reading has had a later update
\* turned down and still carries the earlier completion time
C5_Witness ==
    /\ ret.op = "update_task_status"
    /\ ~ret.ok
    /\ ~ret.ticked
    /\ ret.id \in DOMAIN tasks
    /\ tasks[ret.id].status = FAILED
    /\ tasks[ret.id].completed_at # None
    /\ tasks[ret.id].completed_at[1] < now

\* C6: the progress of every stored task lies between 0.0 and 1.0
C6_ProgressInRange ==
    \A id \in DOMAIN tasks : 0 <= tasks[id].progress /\ tasks[id].progress <= One

\* an update carrying a progress above 1.0 has been accepted and stored as 1.0
C6_Witness ==
    /\ ret.op = "update_task_status"
    /\ ret.ok
    /\ ret.id \in DOMAIN tasks
    /\ tasks[ret.id].progress = One

\* the tasks the design says a cleanup with this max age removes
Expired(store, max_age, clock) ==
    {id \in DOMAIN store :
        /\ store[id].status \in Terminal
        /\ store[id].completed_at # None
        /\ clock - store[id].completed_at[1] > max_age}

\* C7: cleanup_completed_tasks(maxAge) removes exactly the terminal tasks with
\* completed_at set and now - completed_at > maxAge, returns their number, and
\* leaves every other task in the store with its fields unchanged
C7_CleanupRemovesExpired ==
    [][\A max_age \in Ages :
            (ret'.op = "cleanup_completed_tasks" /\ cleanup_completed_tasks(max_age))
            => /\ DOMAIN tasks' = DOMAIN tasks \ Expired(tasks, max_age, now)
               /\ ret'.n = Cardinality(Expired(tasks, max_age, now))
               /\ \A id \in DOMAIN tasks' : tasks'[id] = tasks[id]]_vars

\* a cleanup has removed one task and kept an active task created no later
\* than the clock reading at which the removed one could have been created
C7_Witness ==
    /\ ret.op = "cleanup_completed_tasks"
    /\ ret.arg = MaxAge
    /\ ret.n = 1
    /\ \E id \in DOMAIN tasks :
        /\ tasks[id].status \in {PENDING, DOWNLOADING}
        /\ now - tasks[id].created_at > MaxAge

\* C8: a cleanup_completed_tasks(maxAge) call that directly follows a call
\* with the same maxAge, at the same clock reading, removes nothing and
\* returns 0
C8_CleanupIdempotent ==
    [][\A max_age \in Ages :
            (/\ ret.op = "cleanup_completed_tasks"
             /\ ret.arg = max_age
             /\ ~ret.ticked
             /\ cleanup_completed_tasks(max_age))
            => (tasks' = tasks /\ ret'.n = 0)]_vars

\* a cleanup has just removed two tasks at this clock reading
C8_Witness ==
    /\ ret.op = "cleanup_completed_tasks"
    /\ ~ret.ticked
    /\ ret.n = 2

\* the last call was the accepted update that completed task id
JustCompleted(id) ==
    /\ ret.op = "update_task_status"
    /\ ret.ok
    /\ ret.id = id
    /\ ret.val = Some(COMPLETED)

\* C9 as stated: cleanup_completed_tasks(0) called right after a task was
\* completed removes that task, also when the clock still reads completed_at
C9_ImmediateCleanupRemoves ==
    [][\A id \in TaskIds :
            (JustCompleted(id) /\ cleanup_completed_tasks(0))
            => id \notin DOMAIN tasks']_vars

\* C9 amended: cleanup_completed_tasks(0) called right after a task was
\* completed removes that task exactly when the clock has moved past its
\* completed_at; at an equal reading the task stays; a cleanup(0) directly
\* after a cleanup(0) at the same reading removes 0
C9_CleanupZeroNeedsLaterClock ==
    [][/\ \A id \in TaskIds :
            (JustCompleted(id) /\ cleanup_completed_tasks(0))
            => ((id \notin DOMAIN tasks') = (now > tasks[id].completed_at[1]))
       /\ (/\ ret.op = "cleanup_completed_tasks"
           /\ ret.arg = 0
           /\ ~ret.ticked
           /\ cleanup_completed_tasks(0))
          => ret'.n = 0]_vars

\* the only task ever created has been removed by a cleanup with max age 0
C9_Witness ==
    /\ ret.op = "cleanup_completed_tasks"
    /\ ret.arg = 0
    /\ ret.n = 1
    /\ nextId = 1
    /\ DOMAIN tasks = {}

\* C10: for an id that is not in the store get_task_status and
\* get_task_result return None, update_task_status returns False, and the
\* store is the same afterwards
C10_UnknownIdNoEffect ==
    [][\A id \in TaskIds \ DOMAIN tasks :
            ret'.id = id =>
            /\ get_task_status(id) => (ret'.val = None /\ tasks' = tasks)
            /\ get_task_result(id) => (ret'.task = None /\ tasks' = tasks)
            /\ \A new_status \in TaskStatus, a \in UpdateArgs :
                 (/\ ret'.val = Some(new_status)
                  /\ update_task_status(id, new_status, a[1], a[2], a[3]))
                 => (ret'.ok = FALSE /\ tasks' = tasks)]_vars

\* the status of an evicted id has been asked for while another task is stored
C10_Witness ==
    /\ ret.op = "get_task_status"
    /\ ret.id \notin DOMAIN tasks
    /\ ret.id <= nextId
    /\ ret.val = None
    /\ DOMAIN tasks # {}

----------------------------------------------------------------------------
(* Properties of concurrent calls on the event loop *)

\* coroutines c1 and c2 raced on one Pending task, c1 asking for Downloading
\* and c2 for Failed, and both calls have returned
Raced(c1, c2) ==
    /\ frames[c1].pc = "done" /\ frames[c2].pc = "done"
    /\ frames[c1].id = frames[c2].id
    /\ frames[c1].issued /\ frames[c2].issued
    /\ frames[c1].new_status = DOWNLOADING
    /\ frames[c2].new_status = FAILED

\* C3 as stated: of two update_task_status calls scheduled together on a
\* Pending task, one for Downloading and one for Failed, exactly one returns
\* True and the task has the status that call asked for
C3_RaceHasOneWinner ==
    \A c1, c2 \in Coroutines :
        Raced(c1, c2) =>
            /\ (frames[c1].result = Some(TRUE)) # (frames[c2].result = Some(TRUE))
            /\ frames[c1].id \in DOMAIN tasks =>
                 tasks[frames[c1].id].status =
                    IF frames[c1].result = Some(TRUE)
                    THEN DOWNLOADING ELSE FAILED

\* C3 amended: the call asking for Failed returns True in every order and
\* the task ends Failed; the call asking for Downloading returns True when it
\* runs first, because Downloading -> Failed is in the table, so one or both
\* calls return True
C3_RaceEndsFailed ==
    \A c1, c2 \in Coroutines :
        Raced(c1, c2) =>
            /\ frames[c2].result = Some(TRUE)
            /\ frames[c1].result \in {Some(TRUE), Some(FALSE)}
            /\ frames[c1].id \in DOMAIN tasks =>
                 tasks[frames[c1].id].status = FAILED

\* the race has been run with the Downloading call first: both calls have
\* returned True and the task is Failed
C3_Witness ==
    \E c1, c2 \in Coroutines :
        /\ Raced(c1, c2)
        /\ frames[c1].result = Some(TRUE)
        /\ frames[c2].result = Some(TRUE)
        /\ frames[c1].id \in DOMAIN tasks

\* C4: no reader sees a task whose status has been written by an update whose
\* other writes (file_path, error_message, progress, completed_at) are still
\* to come
C4_NoTornRead == ~obs.torn

\* a reader has run while an update call on the task was scheduled and not
\* yet finished, after an earlier call had completed the task with a file
C4_Witness ==
    /\ obs.op = "get_task_result"
    /\ \E c \in Coroutines : InFlight(frames[c]) /\ frames[c].id \in DOMAIN tasks
    /\ \E id \in DOMAIN tasks :
        /\ tasks[id].status = COMPLETED
        /\ tasks[id].file_path = Some("f1")

----------------------------------------------------------------------------
(* Properties of task creation, the optional fields and eviction *)

\* C11: create_task succeeds and returns an id that no earlier create_task
\* returned, evicted tasks included; the new task is readable at once with
\* status Pending, progress 0 and completed_at, file_path and error_message
\* unset; every task already stored is unchanged
C11_CreateIsFresh ==
    [][ret'.op = "create_task" =>
        \A url \in Urls, user_id \in UserIds, platform \in Platforms :
            create_task(url, user_id, platform) =>
                /\ ret'.ok
                /\ ret'.id \notin 1..nextId
                /\ ret'.id \notin DOMAIN tasks
                /\ Lookup(tasks', ret'.id) # None
                /\ tasks'[ret'.id].status = PENDING
                /\ tasks'[ret'.id].progress = 0
                /\ tasks'[ret'.id].completed_at = None
                /\ tasks'[ret'.id].file_path = None
                /\ tasks'[ret'.id].error_message = None
                /\ \A id \in DOMAIN tasks :
                        id \in DOMAIN tasks' /\ tasks'[id] = tasks[id]]_vars

\* a task has been created after an earlier task was evicted
C11_Witness ==
    /\ ret.op = "create_task"
    /\ ret.id \in DOMAIN tasks
    /\ \E id \in 1..nextId : id # ret.id /\ id \notin DOMAIN tasks

\* C12 as stated: in every reachable state a task whose file_path is set is
\* Completed and a task whose error_message is set is Failed, whatever
\* optional arguments the update_task_status calls carried
C12_OptionalFieldsMatchStatus ==
    \A id \in DOMAIN tasks :
        /\ tasks[id].file_path # None => tasks[id].status = COMPLETED
        /\ tasks[id].error_message # None => tasks[id].status = FAILED

\* C13: a task leaves the store only in a pass of the task cleanup loop or in
\* run_task_cleanup_now, and only when it is Completed or Failed: no create,
\* update or query removes a task, and a Pending or Downloading task is in
\* the store after every step
C13_OnlyCleanupRemoves ==
    [][\A id \in DOMAIN tasks :
            id \notin DOMAIN tasks' =>
                /\ tasks[id].status \in Terminal
                /\ \/ ret'.op = "run_task_cleanup_now" /\ run_task_cleanup_now
                   \/ /\ ret'.op = "_task_cleanup_loop"
                      /\ ret'.val = Some("pass")
                      /\ LoopTaskStep]_vars

\* the task cleanup loop has made a pass that removed nothing while a
\* Downloading task older than the maximum age is in the store
C13_Witness ==
    /\ ret.op = "_task_cleanup_loop"
    /\ ret.val = Some("pass")
    /\ ret.n = 0
    /\ \E id \in DOMAIN tasks :
        /\ tasks[id].status = DOWNLOADING
        /\ now - tasks[id].created_at > max_task_age_minutes

\* C28: an update_task_status call that is accepted returns True and leaves
\* the task with the new status, with the file path and the error message
\* that were supplied, or else the ones it had, with the supplied progress
\* clamped to [0, 1], or else the one it had, and with completed_at set
\* exactly when the new status is Completed or Failed
C28_AcceptedUpdateWritesSupplied ==
    [][\A id \in DOMAIN tasks, new_status \in TaskStatus, a \in UpdateArgs :
            (/\ ret'.op = "update_task_status"
             /\ ret'.id = id
             /\ ret'.val = Some(new_status)
             /\ <<tasks[id].status, new_status>> \in TransitionTable
             /\ update_task_status(id, new_status, a[1], a[2], a[3])) =>
                /\ ret'.ok
                /\ tasks'[id].status = new_status
                /\ tasks'[id].file_path =
                        IF a[1] # None THEN a[1] ELSE tasks[id].file_path
                /\ tasks'[id].error_message =
                        IF a[2] # None THEN a[2] ELSE tasks[id].error_message
                /\ tasks'[id].progress =
                        IF a[3] # None THEN Clamp(a[3][1])
                        ELSE tasks[id].progress
                /\ (tasks'[id].completed_at # None) <=> new_status \in Terminal]_vars

\* C29: update_task_status(id, ...), accepted or rejected, adds and removes
\* no task and changes no task but id, and what it makes of task id depends
\* on that task alone, so the updates of one task have the same outcome
\* whatever updates of other tasks run between them
C29_UpdateTouchesOnlyItsTask ==
    [][\A id \in TaskIds, new_status \in TaskStatus, a \in UpdateArgs :
            (/\ ret'.op = "update_task_status"
             /\ ret'.id = id
             /\ ret'.val = Some(new_status)
             /\ update_task_status(id, new_status, a[1], a[2], a[3])) =>
                /\ DOMAIN tasks' = DOMAIN tasks
                /\ \A other \in DOMAIN tasks \ {id} :
                        tasks'[other] = tasks[other]
                /\ id \in DOMAIN tasks =>
                        tasks'[id] =
                            UpdateStore([k \in {id} |-> tasks[k]], id,
                                        new_status, a[1], a[2], a[3], now)[id]]_vars

\* two tasks have been taken to different terminal states with different
\* progress values by updates that alternated between them
C29_Witness ==
    /\ ret.op = "update_task_status"
    /\ ret.ok
    /\ DOMAIN tasks = {1, 2}
    /\ tasks[1].status = COMPLETED
    /\ tasks[2].status = FAILED
    /\ tasks[1].progress = One
    /\ tasks[2].progress = 0
    /\ tasks[1].file_path = Some("f1")
    /\ tasks[2].error_message = Some("e1")

\* C30: as long as a task stays in the store, its task_id, url, user_id,
\* platform and created_at are the ones create_task gave it, whatever
\* creations, updates, cleanups and clock ticks happen in between
C30_IdentityFieldsNeverChange ==
    [][\A id \in DOMAIN tasks \cap DOMAIN tasks' :
            /\ tasks'[id].task_id = id
            /\ tasks'[id].task_id = tasks[id].task_id
            /\ tasks'[id].url = tasks[id].url
            /\ tasks'[id].user_id = tasks[id].user_id
            /\ tasks'[id].platform = tasks[id].platform
            /\ tasks'[id].created_at = tasks[id].created_at]_vars

\* a task created at clock 0 has been taken to a terminal state at a later
\* clock reading and has outlived a cleanup pass, beside a younger task
C30_Witness ==
    /\ ret.op = "cleanup_completed_tasks"
    /\ DOMAIN tasks = {1, 2}
    /\ tasks[1].status = COMPLETED
    /\ tasks[1].created_at = 0
    /\ tasks[1].completed_at # None
    /\ tasks[1].completed_at[1] > 0
    /\ tasks[2].created_at > 0
    /\ tasks[1].url # tasks[2].url
    /\ tasks[1].user_id # tasks[2].user_id
    /\ tasks[1].platform # tasks[2].platform

----------------------------------------------------------------------------
(* Properties of the maintenance scheduler *)

\* C20: start() called while the scheduler is running creates no loop,
\* neither cancels nor replaces nor advances a loop that exists, keeps both
\* handles and leaves the scheduler running
C20_StartWhileRunningNoOp ==
    [][(ret'.op = "start" /\ _running /\ start) =>
            /\ aio' = aio
            /\ _file_cleanup_task' = _file_cleanup_task
            /\ _task_cleanup_task' = _task_cleanup_task
            /\ stops' = stops
            /\ _running']_vars

\* start() has returned without starting anything while both loops of the
\* earlier start() are alive, one of them asleep after a pass
C20_Witness ==
    /\ ret.op = "start"
    /\ ~ret.ok
    /\ _running
    /\ Len(aio) = 2
    /\ \A h \in DOMAIN aio : Alive(aio, h)
    /\ \E h \in DOMAIN aio : aio[h].at = "interval"

\* C21: stop() called while the scheduler is stopped (never started, or
\* stopped before) returns at once, cancels no loop, keeps both handles and
\* leaves the scheduler stopped
C21_StopWhileStoppedNoOp ==
    [][\A k \in StopCallers :
        (stops[k].pc = "idle" /\ ~_running /\ stop(k)) =>
            /\ ret'.op = "stop"
            /\ ret'.id = k
            /\ ~ret'.ok
            /\ aio' = aio
            /\ stops' = stops
            /\ _file_cleanup_task' = _file_cleanup_task
            /\ _task_cleanup_task' = _task_cleanup_task
            /\ ~_running']_vars

\* stop() has returned without doing anything after an earlier stop() ended
\* both loops of a start()
C21_Witness ==
    /\ ret.op = "stop"
    /\ ~ret.ok
    /\ ~_running
    /\ Len(aio) = 2
    /\ \A h \in DOMAIN aio : ~Alive(aio, h)
    /\ \A k \in StopCallers : stops[k].pc = "idle"

\* C22: when a call of stop() returns, no cleanup loop that start() created
\* before that moment is still alive, whatever the interleaving of start()
\* and stop() calls was
C22_ResolvedStopLeavesNoLoop ==
    [][\A k \in StopCallers :
        (/\ stops'[k].pc = "idle"
         /\ ret'.op = "stop"
         /\ ret'.id = k
         /\ stop(k) \/ stop_resume(k)) =>
            \A h \in DOMAIN aio' : ~Alive(aio', h)]_vars

\* C23: a cleanup call that raises leaves its loop alive in the 60 second
\* backoff sleep; while the scheduler runs and the loop is not cancelled, the
\* loop's next step calls the cleanup again, after any number of failures in
\* a row, and that step does come; a loop ends only after stop() cancelled it
\* or cleared _running
C23_RaiseNeverEndsLoop ==
    /\ [][/\ \A h \in DOMAIN aio :
                /\ (ret'.id = h /\ ret'.val = Some("raise") /\ loop_step(h)) =>
                        /\ Alive(aio', h)
                        /\ aio'[h].at = "backoff"
                        /\ aio'[h].sleep = 60
                /\ (/\ aio[h].at = "backoff"
                    /\ _running
                    /\ ~aio[h].must_cancel
                    /\ loop_step(h)) =>
                        /\ ret'.op = aio[h].coro
                        /\ ret'.id = h
                        /\ ret'.val \in {Some("pass"), Some("raise")}
                /\ (Alive(aio, h) /\ ~Alive(aio', h)) =>
                        aio[h].must_cancel \/ ~_running
                /\ (aio'[h].must_cancel /\ ~aio[h].must_cancel) =>
                        \E k \in StopCallers : stop(k) \/ stop_resume(k)
          /\ (_running /\ ~_running') => \E k \in StopCallers : stop(k)]_vars
    /\ \A h \in 1..(2 * MaxStarts), n \in 1..MaxFails :
            (/\ h \in DOMAIN aio
             /\ aio[h].at = "backoff"
             /\ aio[h].fails = n
             /\ _running
             /\ ~aio[h].must_cancel)
                ~> (/\ h \in DOMAIN aio
                    /\ \/ aio[h].at = "interval"
                       \/ aio[h].at = "backoff" /\ aio[h].fails = n + 1
                       \/ ~_running
                       \/ aio[h].must_cancel)

\* a loop of the running scheduler sleeps its backoff after the cleanup
\* raised, was called again and raised again
C23_Witness ==
    /\ _running
    /\ \E h \in DOMAIN aio :
        /\ aio[h].at = "backoff"
        /\ aio[h].fails = 2
        /\ aio[h].sleep = BackoffSleep
        /\ ~aio[h].must_cancel
        /\ ret.id = h
        /\ ret.val = Some("raise")

\* C27: run_task_cleanup_now and run_file_cleanup_now make the one cleanup
\* call with the configured maximum age and return its count, whether the
\* scheduler runs or not, and change neither _running nor the loops nor the
\* handles
C27_ManualTriggerFrame ==
    [][/\ (ret'.op = "run_task_cleanup_now" /\ run_task_cleanup_now) =>
            /\ tasks' = Without(tasks,
                    TasksToRemove(tasks, max_task_age_minutes, now))
            /\ ret'.n = Cardinality(
                    TasksToRemove(tasks, max_task_age_minutes, now))
            /\ ret'.arg = max_task_age_minutes
            /\ files' = files
            /\ schedVars' = schedVars
       /\ (ret'.op = "run_file_cleanup_now" /\ run_file_cleanup_now) =>
            /\ files' = Without(files, OldFiles(files, max_file_age_hours, now))
            /\ ret'.n = Cardinality(OldFiles(files, max_file_age_hours, now))
            /\ ret'.arg = max_file_age_hours
            /\ tasks' = tasks
            /\ schedVars' = schedVars]_vars

\* the manual trigger has evicted a task and returned 1 while the scheduler
\* runs and its task loop sleeps between two passes
C27_Witness ==
    /\ ret.op = "run_task_cleanup_now"
    /\ ret.n = 1
    /\ ret.arg = max_task_age_minutes
    /\ tasks = <<>>
    /\ _running
    /\ _task_cleanup_task # None
    /\ aio[_task_cleanup_task[1]].at = "interval"

\* a step of loop h: a pass is made by a loop that has just started or whose
\* sleep is over and is followed by the sleep of the configured interval, a
\* pass that raised by the backoff sleep; a loop ends in a step of its own
\* in which it makes no pass; cancel() itself moves no loop
PassThenSleep(h) ==
    /\ (ret'.id = h /\ ret'.val = Some("pass") /\ loop_step(h)) =>
            /\ aio[h].at \in {"created", "interval", "backoff"}
            /\ aio'[h].at = "interval"
            /\ aio'[h].sleep = IntervalSleep(aio[h].coro)
    /\ (ret'.id = h /\ ret'.val = Some("raise") /\ loop_step(h)) =>
            /\ aio[h].at \in {"created", "interval", "backoff"}
            /\ aio'[h].at = "backoff"
            /\ aio'[h].sleep = BackoffSleep
    /\ (Alive(aio, h) /\ ~Alive(aio', h)) =>
            /\ loop_step(h)
            /\ ret'.id = h
            /\ ret'.val = Some("exit")
            /\ tasks' = tasks
            /\ files' = files
    /\ (aio'[h].must_cancel /\ ~aio[h].must_cancel) =>
            /\ aio'[h].at = aio[h].at
            /\ tasks' = tasks
            /\ files' = files

\* C32 as stated: each loop makes its pass and then sleeps, in that order,
\* and a loop that stop() cancelled ends only out of a sleep, the interval
\* sleep or the backoff
C32_CancelOnlyWhileSleeping ==
    [][\A h \in DOMAIN aio :
        /\ PassThenSleep(h)
        /\ (Alive(aio, h) /\ ~Alive(aio', h) /\ aio[h].must_cancel) =>
                aio[h].at \in {"interval", "backoff"}]_vars

\* C32, amended: each loop makes its pass and then sleeps, in that order; a
\* loop that stop() cancelled ends out of the interval sleep or the backoff,
\* or before its first statement when it has not run yet, so that no pass
\* is cut short
C32_CancelBetweenPasses ==
    [][\A h \in DOMAIN aio :
        /\ PassThenSleep(h)
        /\ (Alive(aio, h) /\ ~Alive(aio', h) /\ aio[h].must_cancel) =>
                aio[h].at \in {"created", "interval", "backoff"}]_vars

\* stop() has seen the file loop end and has cancelled the task loop, which
\* sleeps its backoff after a pass that raised
C32_Witness ==
    /\ ~_running
    /\ _file_cleanup_task # None
    /\ _task_cleanup_task # None
    /\ ~Alive(aio, _file_cleanup_task[1])
    /\ aio[_task_cleanup_task[1]].at = "backoff"
    /\ aio[_task_cleanup_task[1]].must_cancel
    /\ \E k \in StopCallers : stops[k].pc = "await_task"

\* loop h of the running scheduler has not been cancelled
Looping(h) ==
    /\ h \in DOMAIN aio
    /\ Alive(aio, h)
    /\ _running
    /\ ~aio[h].must_cancel

\* the last step of the event loop was a step of loop h
Stepped(h) ==
    /\ h \in DOMAIN aio
    /\ ret.op = aio[h].coro
    /\ ret.id = h

\* C33: a step of one loop (a pass, a pass that raised and its backoff, an
\* exit) leaves every other loop as it was, and the data of the other kind
\* of loop untouched; a loop of the running scheduler that was not
\* cancelled can always take its next step, which is a pass, and does take
\* it, whatever state the other loops are in: after another loop or call
\* has run, and out of its own backoff up to a pass that returns
C33_LoopsIndependent ==
    /\ [][\A h \in DOMAIN aio :
            /\ (ret'.op = aio[h].coro /\ ret'.id = h /\ loop_step(h)) =>
                    /\ \A g \in DOMAIN aio \ {h} : aio'[g] = aio[g]
                    /\ aio[h].coro = "_file_cleanup_loop" => tasks' = tasks
                    /\ aio[h].coro = "_task_cleanup_loop" => files' = files
                    /\ Looping(h) =>
                            ret'.val \in {Some("pass"), Some("raise")}
            /\ Looping(h) => ENABLED loop_step(h)]_vars
    /\ \A h \in 1..(2 * MaxStarts) :
            /\ (Looping(h) /\ ~Stepped(h))
                    ~> (Stepped(h) \/ ~Looping(h))
            /\ (Looping(h) /\ aio[h].at \in {"created", "backoff"})
                    ~> (\/ h \in DOMAIN aio /\ aio[h].at = "interval"
                        \/ ~Looping(h))

\* the task loop has made a pass and sleeps its interval while the file
\* loop of the same start() sleeps the backoff after its cleanup raised twice
C33_Witness ==
    /\ _running
    /\ _file_cleanup_task # None
    /\ _task_cleanup_task # None
    /\ aio[_file_cleanup_task[1]].at = "backoff"
    /\ aio[_file_cleanup_task[1]].fails = 2
    /\ aio[_task_cleanup_task[1]].at = "interval"
    /\ Looping(_task_cleanup_task[1])
    /\ Stepped(_task_cleanup_task[1])
    /\ ret.val = Some("pass")

\* the loops of coroutine coro that are alive and have no cancellation
\* pending
Live(coro) ==
    {h \in DOMAIN aio :
        aio[h].coro = coro /\ Alive(aio, h) /\ ~aio[h].must_cancel}

\* C37: in every state at most one file cleanup loop and at most one task
\* cleanup loop is live, whatever the interleaving of start() and stop()
\* calls, a start() during a suspended stop() included
C37_OneLoopOfEachKind ==
    /\ Cardinality(Live("_file_cleanup_loop")) <= 1
    /\ Cardinality(Live("_task_cleanup_loop")) <= 1

\* stop() called by k on the running scheduler returns in this step
StopResolves(k) ==
    /\ stops'[k].pc = "idle"
    /\ ret'.op = "stop"
    /\ ret'.id = k
    /\ ret'.ok
    /\ stop(k) \/ stop_resume(k)

\* a stop() that is suspended resumes and returns
StopEnds ==
    \A k \in StopCallers : (stops[k].pc # "idle") ~> (stops[k].pc = "idle")

ErrorClass(e) ==
    IF e.type # "DownloadError" THEN "UnknownError"
    ELSE IF Contains(<<"unavailable">>, e.text) THEN "Unavailable"
    ELSE IF Contains(<<"not", "found">>, e.text) THEN "NotFound"
    ELSE "TransferError"

\* C26: the error message of a failed result does not depend on the text of
\* the fetch library's exception: had the library raised another exception
\* of the same class, with another text, the message would be the same
C26_MessageIgnoresLibraryText ==
    [][\A c \in DownloadCallers, e1 \in Exceptions, e2 \in Exceptions :
        (/\ downloads[c].pc = "probe"
         /\ ErrorClass(e1) = ErrorClass(e2)
         /\ probe_raises(c, e1)) =>
            downloads'[c].result[1].error_message
                = MapError(e2).error_message]_vars

----------------------------------------------------------------------------
(* Properties of the bot's handlers *)

\* C24: handle_message and handle_inline_query, given a text whose URL the
\* validator reports as not valid, create no task, leave every task and the
\* downloader as they were and start no download; and no task of the store
\* has a URL the validator rejects
C24_InvalidUrlCreatesNothing ==
    [][/\ \A id \in DOMAIN tasks' : validate_url(tasks'[id].url).is_valid
       /\ (/\ ret'.op \in {"handle_message", "handle_inline_query"}
           /\ ~validate_url(ret'.arg).is_valid) =>
            \A h \in DownloadCallers, user_id \in UserIds, t \in Texts :
                (/\ strip(t) = ret'.arg
                 /\ \/ handle_message(h, user_id, Some(t))
                    \/ handle_inline_query(h, user_id, t)) =>
                    /\ tasks' = tasks
                    /\ nextId' = nextId
                    /\ handlers' = handlers
                    /\ dlVars' = dlVars
                    /\ files' = files]_vars

\* an inline query for a URL on another site has been turned down while the
\* store holds the task of an earlier request, which is still downloading
C24_Witness ==
    /\ ret.op = "handle_inline_query"
    /\ ~ret.ok
    /\ ret.val = Some("Unsupported platform")
    /\ \E id \in DOMAIN tasks : tasks[id].status = DOWNLOADING

\* C25: while the task of an inline request is downloading, a progress value
\* the hook passes to the progress callback is in the store afterwards:
\* get_task_result returns the task with that value, clamped, as its progress
C25_ProgressReachesStore ==
    [][\A h \in DownloadCallers, d \in Events :
        (/\ handlers[h].pc = "download"
         /\ downloads[h].callback
         /\ ~HookRaises(d)
         /\ handler_progress(h, d)) =>
            /\ Lookup(tasks', handlers[h].task_id) # None
            /\ Lookup(tasks', handlers[h].task_id)[1].status = DOWNLOADING
            /\ Lookup(tasks', handlers[h].task_id)[1].progress
                    = Clamp(reported'[1])]_vars

\* the task a handler that is waiting for download_video works on
TaskOf(h) ==
    IF handlers[h].kind = "message" /\ handlers[h].pc = "answer"
    THEN uuid4
    ELSE handlers[h].task_id

\* C31: in the step in which download_video returns to handle_message or to
\* _process_inline_download, the handler leaves its task Completed with the
\* result's file_path when the result has success, and Failed with the
\* result's error_message when it has not
C31_HandlerRecordsResult ==
    [][\A h \in DownloadCallers :
        (/\ handlers[h].pc \in {"answer", "download"}
         /\ handlers'[h].pc \in {"idle", "send"}
         /\ ret'.op \in {"message", "inline"}) =>
            LET r == dret'.result[1]
                task == Lookup(tasks', TaskOf(h))
            IN /\ dret'.op = "download_video"
               /\ dret'.caller = h
               /\ task # None
               /\ IF r.success
                  THEN /\ task[1].status = COMPLETED
                       /\ r.file_path # None
                       /\ task[1].file_path = r.file_path
                       /\ task[1].error_message = None
                  ELSE /\ task[1].status = FAILED
                       /\ r.error_message # None
                       /\ task[1].error_message = r.error_message
                       /\ task[1].file_path = None]_vars

\* the download of a message found its file under another extension, and
\* handle_message has recorded the task as completed with that path
C31_Witness ==
    /\ ret.op = "message"
    /\ ret.ok
    /\ dret.op = "download_video"
    /\ dret.result # None
    /\ dret.result[1].success
    /\ dret.result[1].file_path = Some(<<"a", "webm">>)
    /\ \E id \in DOMAIN tasks :
        /\ tasks[id].status = COMPLETED
        /\ tasks[id].file_path = Some(<<"a", "webm">>)

\* the tasks of user_id for url that count as active or completed
Counted(user_id, url) ==
    {id \in DOMAIN tasks :
        /\ tasks[id].user_id = user_id
        /\ tasks[id].url = url
        /\ tasks[id].status \in {PENDING, DOWNLOADING, COMPLETED}}

\* C35: of the tasks handle_inline_query created for one user and one URL
\* at most one is Pending, Downloading or Completed, and the handler creates
\* a task for the pair only in a state where none is
C35_OneTaskPerUserAndUrl ==
    [][/\ \A user_id \in UserIds, url \in {strip(t) : t \in Texts} :
            Cardinality(Counted(user_id, url)') <= 1
       /\ \A user_id \in UserIds, t \in Texts :
            (/\ ret'.op = "handle_inline_query"
             /\ ret'.arg = strip(t)
             /\ nextId' # nextId
             /\ \E h \in DownloadCallers : handle_inline_query(h, user_id, t)) =>
                /\ Counted(user_id, strip(t)) = {}
                /\ Counted(user_id, strip(t))' = {nextId'}]_vars

\* an inline query has created the second task for the user and the URL
\* after the download of the first one failed
C35_Witness ==
    /\ ret.op = "handle_inline_query"
    /\ ret.ok
    /\ DOMAIN tasks = {1, 2}
    /\ tasks[1].status = FAILED
    /\ tasks[2].status = PENDING
    /\ tasks[1].url = tasks[2].url
    /\ tasks[1].user_id = tasks[2].user_id

\* C34: every task a request handler created reaches Completed or Failed,
\* given that the fetch of its download returns: a task that is Pending or
\* Downloading does not stay so forever, also when a Telegram call or
\* get_temp_path raises inside its handler
C34_EveryTaskEnds ==
    \A id \in TaskIds :
        (id \in DOMAIN tasks /\ tasks[id].status \in {PENDING, DOWNLOADING})
            ~> (id \in DOMAIN tasks /\ tasks[id].status \in {COMPLETED, FAILED})

----------------------------------------------------------------------------
(* Properties of the download orchestrator *)

\* the result is the size-limit error of the probe
IsVideoTooLarge(r) ==
    r.error_message # None /\ r.error_message[1][1] = "Video too large: "

\* the result is the size-limit error of the final size check
IsFileTooLarge(r) ==
    r.error_message # None /\ r.error_message[1][1] = "Downloaded file too large: "

\* the probe declares a size above the maximum: the exact size when it
\* reports one, the approximate size when it reports no exact size
DeclaredTooLarge(info) ==
    \/ info[1] # None /\ info[1][1] > max_file_size_bytes
    \/ info[1] = None /\ info[2] # None /\ info[2][1] > max_file_size_bytes

\* the files of the directory whose name is the stem of output_path followed
\* by an extension
SameStem(fs, output_path) ==
    {p \in DOMAIN fs : Len(p) >= Len(output_path)
                       /\ \A i \in 1..(Len(output_path) - 1) : p[i] = output_path[i]}

\* C14: download_video never raises: whether the probe fails, the transfer
\* raises a download error or another error, the directory cannot be made or
\* the progress hook raises, the call returns a DownloadResult, and a result
\* with success false carries an error message
C14_DownloadNeverRaises ==
    dret.op = "download_video" =>
        /\ dret.raised = None
        /\ dret.result # None
        /\ ~dret.result[1].success => dret.result[1].error_message # None

\* a call has returned the result of a transfer that the progress hook's
\* division by zero ended
C14_Witness ==
    /\ dret.op = "download_video"
    /\ dret.started
    /\ dret.result =
         Some(Failure(<<"Unexpected error: ", "division", "by", "zero">>))

\* C15: when the probe declares a size above the maximum the worker returns
\* the size-limit error without calling the transfer, the directory is left
\* as it was, and download_video returns that result with no file at the
\* destination
C15_DeclaredTooLargeAborts ==
    [][\A c \in DownloadCallers :
        /\ \A info \in Infos :
            (/\ downloads[c].pc = "probe"
             /\ DeclaredTooLarge(info)
             /\ probe_returns(c, info))
            => /\ downloads'[c].pc = "resolved"
               /\ ~downloads'[c].started
               /\ ~downloads'[c].result[1].success
               /\ IsVideoTooLarge(downloads'[c].result[1])
               /\ files' = files
        /\ (/\ downloads[c].pc = "resolved"
            /\ IsVideoTooLarge(downloads[c].result[1])
            /\ download_return(c))
           => /\ dret'.result = downloads[c].result
              /\ ~dret'.started
              /\ SameStem(files', downloads[c].output_path) = {}]_vars

\* download_video has returned the probe's size-limit error, no transfer was
\* started and the directory holds the earlier download's file only
C15_Witness ==
    /\ dret.op = "download_video"
    /\ dret.result # None
    /\ IsVideoTooLarge(dret.result[1])
    /\ ~dret.started
    /\ files = LeftoverFiles

C17_ProgressInUnitInterval ==
    /\ \A id \in DOMAIN active_downloads :
        0 <= active_downloads[id] /\ active_downloads[id] <= One
    /\ reported # None => (0 <= reported[1] /\ reported[1] <= One)

\* C18: when the transfer has reported completion and no file is at the
\* expected path, the verification goes on with a file of the same stem, and
\* when there is none the result is the file-not-found error; a result with
\* success true names a file that is in the directory, never a file of
\* another download
C18_MissingFileLookup ==
    [][\A c \in DownloadCallers :
        LET out == downloads[c].output_path IN
        /\ (downloads[c].pc = "verify" /\ verify(c)) =>
            LET r == downloads'[c].result[1] IN
            /\ out \notin DOMAIN files =>
                 ((SameStem(files, out) = {})
                    = (r = Failure(<<"Downloaded file not found">>)))
            /\ r.success =>
                 /\ r.file_path[1] \in DOMAIN files'
                 /\ r.file_path[1] \in SameStem(files, out)
                 /\ out \in DOMAIN files => r.file_path[1] = out
        /\ (downloads[c].pc = "resolved" /\ download_return(c)) =>
            (dret'.result[1].success =>
                dret'.result[1].file_path[1] \in DOMAIN files')]_vars

\* download_video has returned the file with the extension the transfer
\* chose, while the file of an earlier download is in the directory
C18_Witness ==
    /\ dret.op = "download_video"
    /\ dret.result # None
    /\ dret.result[1].success
    /\ dret.result[1].file_path = Some(<<"a", "webm">>)
    /\ <<"a", "mp4">> \notin DOMAIN files
    /\ <<"b", "mp4">> \in DOMAIN files

\* C19: cancel_download(id) removes the tracking entry of id and changes
\* nothing else: the calls in flight keep their place, the directory and the
\* reported progress stay; download_video returns the result its worker
\* produced; and a call that was forgotten while its fetch was running still
\* returns
C19_CancelForgetsOnly ==
    /\ [][/\ \A id \in Urls :
                (dret'.op = "cancel_download" /\ cancel_download(id)) =>
                    /\ files' = files
                    /\ reported' = reported
                    /\ active_downloads' = Without(active_downloads, {id})
                    /\ \A c \in DownloadCallers :
                        [downloads'[c] EXCEPT !.forgotten = FALSE]
                            = [downloads[c] EXCEPT !.forgotten = FALSE]
          /\ \A c \in DownloadCallers :
                (downloads[c].pc = "resolved" /\ download_return(c)) =>
                    dret'.result = downloads[c].result]_vars
    /\ \A c \in DownloadCallers :
            downloads[c].forgotten ~>
                (dret.op = "download_video" /\ dret.caller = c /\ dret.forgotten)

\* a call that was forgotten while its fetch was running has returned with
\* success, and the file the transfer wrote after the cancel is in the
\* directory
C19_Witness ==
    /\ dret.op = "download_video"
    /\ dret.forgotten
    /\ dret.result # None
    /\ dret.result[1].success
    /\ dret.result[1].file_path[1] \in DOMAIN files

\* a DownloadResult of one of the two shapes: success with a path and a size
\* within the maximum, or failure with a message and no path
WellFormed(r) ==
    IF r.success
    THEN /\ r.file_path # None
         /\ r.file_path[1] # <<>>
         /\ r.file_size <= max_file_size_bytes
         /\ r.error_message = None
    ELSE /\ r.error_message # None
         /\ r.error_message[1] # <<>>
         /\ r.file_path = None

\* C36: every result download_video returns, and every result its worker
\* hands over, is well formed: with success it names a file and a size of at
\* most the maximum, without success it carries an error message and no path
C36_ResultWellFormed ==
    /\ dret.op = "download_video" =>
            /\ dret.result # None
            /\ WellFormed(dret.result[1])
    /\ \A c \in DownloadCallers :
            downloads[c].result # None => WellFormed(downloads[c].result[1])

\* download_video has returned success for the file at the path it was given,
\* the size of which is below the maximum
C36_Witness ==
    /\ dret.op = "download_video"
    /\ dret.result # None
    /\ dret.result[1].success
    /\ dret.result[1].file_path = Some(get_temp_path(dret.caller))
    /\ dret.result[1].file_size = 1
    /\ dret.result[1].file_size < max_file_size_bytes

\* no call of download_video is in flight
NoneInFlight == \A c \in DOMAIN downloads : downloads[c].pc = "idle"

\* a call of download_video returns in this step
DownloadReturns ==
    /\ dret'.op = "download_video"
    /\ \/ \E c \in Overlapping : download_return(c)
       \/ \E c \in Overlapping, url \in Urls :
            /\ downloads' = downloads
            /\ download_video(c, url, get_temp_path(c), FALSE)

\* C39: whenever no download_video call is in flight active_downloads is
\* empty, and every call that returns (with a success, with a failed
\* result or out of its except clause) leaves no entry for its URL, calls
\* for the same URL that overlap included
C39_NoCallNoEntry ==
    /\ [](NoneInFlight => active_downloads = <<>>)
    /\ [][DownloadReturns => dret'.id \notin DOMAIN active_downloads']_vars

\* two calls for the same URL have overlapped and both have returned, the
\* later one with its file: nothing is tracked
C39_Witness ==
    /\ NoneInFlight
    /\ dret.op = "download_video"
    /\ dret.caller = 2
    /\ dret.started
    /\ dret.result # None
    /\ dret.result[1].success
    /\ get_temp_path(1) \in DOMAIN files
    /\ active_downloads = <<>>

\* C40: from the cancel_download(id) that forgets a transfer in flight
\* until a new download_video call for id begins, get_download_progress(id)
\* returns 0.0: the progress events of the transfer that still runs do not
\* bring the entry back
C40_CancelledStaysForgotten ==
    \A c \in DownloadCallers :
        downloads[c].forgotten => get_download_progress(downloads[c].url) = 0

====
